---- MODULE Spec2Model ----
(***************************************************************************)
(* Model of the mup plugin manager (src/plugin.go): the shared tail over   *)
(* the incoming log, the dispatch loop that fans records out to plugins,   *)
(* the reconciliation pass and the rollback protocol between them; and of  *)
(* the account manager (src/plugger_test.go): its reconciliation pass and  *)
(* the per-account tail over the outgoing log.                             *)
(*                                                                         *)
(* Record ids are ObjectIds: they start with a timestamp and grow in       *)
(* insertion order.  The model takes an id to be the clock value at the    *)
(* insert; every insert advances the clock by one second, so ids are       *)
(* unique and increasing.  An unset ObjectId ("") is 0.                    *)
(***************************************************************************)
EXTENDS Integers, Sequences, FiniteSets, TLC

\* ---- bounds of the model ------------------------------------------------
MaxStore == 3          \* records the incoming log may hold, where a claim needs three
MaxShortStore == 2     \* records the incoming log may hold otherwise
MaxTicks == 1          \* long pauses (longer than rollbackLimit) of the clock
MaxEdits == 2          \* edits of the plugins collection by the operator
MaxStarts == 2         \* times the plugin manager is started
MaxOut == 3            \* records the outgoing log may hold, where a claim needs three
MaxShortOut == 2       \* records the outgoing log may hold otherwise
MaxAccEdits == 2       \* edits of the accounts collection by the operator
MaxAccStarts == 2      \* times the account manager is started
MaxCalls == 2          \* records the plugins insert from inside their Stop
MaxChans == 2          \* channels an account document may list
MaxRefreshes == 3      \* refreshes of the channels of an account
MaxTargets == 2        \* targets a plugin document may list
RecordId == 2          \* id of the record the target functions are applied to
MaxStopCalls == 2      \* calls of pluginManager.Stop
MaxLdapEdits == 3      \* edits of the ldap collection by the operator
MaxIn == 1             \* chat messages the account manager's loop stores

\* ---- program constants --------------------------------------------------
rollbackLimit == 10    \* seconds
rollbackAccount == "<rollback>"
cmdPong == "PONG"
cmdPrivMsg == "PRIVMSG"

PluginNames == {"p", "q/x"}
\* The bytes of a plugin name.
Chars(name) == IF name = "p" THEN <<"p">> ELSE <<"q", "/", "x">>
Accounts == {"a"}                  \* accounts that receive chat messages
OutAccounts == {"a", "b"}          \* accounts plugins send chat messages to
\* The config and targets blobs the operator gives a plugin document.
Blobs(p) == IF p = "p" THEN {<<"c1", "a">>, <<"c2", "a">>, <<"c1", "b">>}
            ELSE {<<"c1", "a">>}

VARIABLES
    now,          \* the wall clock, in seconds
    ticks,        \* number of long pauses taken
    edits,        \* number of edits of the plugins collection
    starts,       \* number of starts of the plugin manager
    incomcol,     \* the "incoming" collection: sequence of records in natural order
    pluginsCol,   \* the "plugins" collection: name -> document
    tomb,         \* m.tomb: "none", "alive", "dying"
    plugins,      \* m.plugins: name -> running state
    lpc,          \* position of the goroutine running pluginManager.loop
    lmsg,         \* the record the loop is fanning out
    todo,         \* plugins the range loop has not visited yet for lmsg
    cur,          \* the plugin whose lastid is about to be persisted
    rollbackId,   \* the id refreshPlugins is sending on m.rollback
    tpc,          \* position of the goroutine running pluginManager.tail
    lastId,       \* the tail's position
    iterPos,      \* id of the last record the open iterator returned
    msg,          \* the record the tail is trying to deliver
    handled,      \* per plugin: ids its handlers got, for the running instance
    covered,      \* per plugin: the pass that started it submitted its rollback
    got,          \* the rollback request the tail has just received
    configPlugins,      \* m.config.Plugins
    registeredPlugins,  \* the keys of the registeredPlugins map
    synced,       \* a pass fetched the documents and none was edited since
    mismatched,   \* per plugin name: ids the loop passed over for their target
    aedits,       \* number of edits of the accounts collection
    astarts,      \* number of starts of the account manager
    outgoing,     \* the "outgoing" collection: sequence of records in natural order
    accountsCol,  \* the "accounts" collection: the document of account "a"
    amtomb,       \* am.tomb: "none", "alive", "dying"
    client,       \* am.clients["a"]: "none", "up", "dying"
    apc,          \* position of the goroutine running accountManager.tail
    alastId,      \* the account tail's position
    aiterPos,     \* id of the last record the account tail's iterator returned
    amsg,         \* the record the account tail is trying to deliver
    handed,       \* ids of the records the client took from the tail
    cpend,        \* id of the record the client is transmitting, 0 if none
    probed,       \* ids of the records whose confirmation probe was sent
    asent,        \* ids the running account tail handed to its client, in order
    astartId,     \* the position the running account tail began with
    amIn,         \* the message the account manager's loop has just received
    asynced,      \* a pass fetched the accounts; no edit or client death since
    life,         \* start, die and Stop: the fields of NoLife
    ref,          \* the callers of Refresh and the tickers: the fields of QuietRef
    io            \* the function checked on its own: its inputs and what it did

clientVars == <<cpend, probed>>
ahistVars == <<asent, astartId>>

accVars == <<aedits, astarts, outgoing, accountsCol, amtomb, client, apc, alastId, aiterPos,
             amsg, handed, clientVars, ahistVars, amIn, asynced>>

cfgVars == <<configPlugins, registeredPlugins>>

\* per plugin: "", "stopping" (its Stop is running), "stopped"
stopSt == life.stopSt
\* the LDAP connection: "none", "open", "closing", "closed"
ldaps == life.ldaps
\* m.ldapConns holds the connection (FALSE: nil or empty map)
ldapConns == life.ldapConns
\* a manager method panicked "after its Stop method returned"
panicked == life.panicked
\* copies of the store session startPluginManager made, not closed yet
session == life.session
\* the same for startAccountManager
asession == life.asession

\* config.Refresh > 0
refreshOn == ref.refreshOn
\* the caller of pluginManager.Refresh: "idle", "sending", "accepted"
rpc == ref.rpc
\* a pass of the plugin manager began since Refresh was called
pbegan == ref.pbegan
\* a tick waits in the channel of the plugin manager's ticker
tickc == ref.tickc
\* the caller of accountManager.Refresh: "idle", "sending", "closed"
arpc == ref.arpc
\* a pass of the account manager began since Refresh was called
apbegan == ref.apbegan
\* a tick waits in the channel of the account manager's ticker
atickc == ref.atickc

\* the channels of the account's document, in their order
chanCfg == io.chanCfg
\* the channels the server confirmed the client joined
joined == io.joined
\* the lines the last refresh wrote to the connection
wire == io.wire
\* refreshes of the client's channels so far
nrefresh == io.nrefresh
\* the channels were edited or confirmed since the last refresh
touched == io.touched
\* the channel list the running client holds: client.UpdateInfo(info)
cinfo == io.cinfo
\* the targets of a plugin, in configuration order
tgts == io.tgts
\* the record the loop received: its id and address
tmsg == io.tmsg
\* the plugin's state.info.LastId
tlast == io.tlast
\* "in": inputs drawn; "sent": CanSend applied; "out": dispatched
tstep == io.tstep
\* index of the target Plugger.Target returned, 0 for nil
tres == io.tres
\* what CanSend answered for each target
tsend == io.tsend
\* the loop handed the record to the plugin
thanded == io.thanded
\* the record, the plugin and what the command schema answers
hin == io.hin
\* "in": inputs drawn; "handled": handle returned; "out": loop goes on
hstep == io.hstep
\* the calls handle made, in order
hcalls == io.hcalls
\* state.info.LastId of the plugin
hlastid == io.hlastid
\* the lastid of the plugin's document
hstored == io.hstored

\* What start, die, Stop, Refresh and the functions checked on their own add
\* to the state of the two managers.
extVars == <<life, ref, io>>

pluginVars == <<ticks, edits, starts, incomcol, pluginsCol, tomb, plugins, lpc, lmsg, todo, cur,
                rollbackId, tpc, lastId, iterPos, msg, handled, covered, got, cfgVars, synced,
                mismatched, extVars>>

vars == <<now, pluginVars, accVars>>

loopVars == <<lpc, lmsg, todo, cur, rollbackId>>
tailVars == <<tpc, lastId, iterPos, msg>>
histVars == <<handled, covered, got>>

Min(a, b) == IF a < b THEN a ELSE b
Max(a, b) == IF a > b THEN a ELSE b

NoMsg == [id |-> 0, command |-> "", account |-> ""]
NoDoc == [present |-> FALSE, config |-> "", targets |-> "", lastid |-> 0]
NoPlugin == [running |-> FALSE, config |-> "", targets |-> "", lastid |-> 0]
NoRequest == [id |-> 0, before |-> 0, at |-> ""]
NoOut == [id |-> 0, account |-> ""]
NoAccount == [present |-> FALSE, lastid |-> 0]
\* No Stop is running, no LDAP connection, no session copied.
NoLife ==
    [stopSt |-> [p \in PluginNames |-> ""], ldaps |-> "none", ldapConns |-> FALSE,
     panicked |-> FALSE, session |-> 0, asession |-> 0]
\* No function is checked on its own: io holds only the number of records
\* the environment lets each log grow to.
NoIo == [storeCap |-> MaxShortStore, outCap |-> MaxShortOut]
FullLogs == [storeCap |-> MaxStore, outCap |-> MaxOut]
NoIn == [cmd |-> "", text |-> <<>>, account |-> ""]
\* m.config.Plugins: a nil slice, or a slice of names.
NilPlugins == [nil |-> TRUE, names |-> <<>>]
ListedPlugins(names) == [nil |-> FALSE, names |-> names]

\* strings.Index(pluginName, "/"): 0 stands for the source's -1.
IndexSlash(cs) ==
    IF \E i \in 1..Len(cs) : cs[i] = "/"
    THEN CHOOSE i \in 1..Len(cs) : cs[i] = "/" /\ \A j \in 1..(i - 1) : cs[j] # "/"
    ELSE 0

\* pluginKey: the name up to its first slash.
pluginKey(name) ==
    LET cs == Chars(name)
    IN  IF IndexSlash(cs) > 0 THEN SubSeq(cs, 1, IndexSlash(cs) - 1) ELSE cs

\* bson.NewObjectIdWithTime: the smallest id of that second.
NewObjectIdWithTime(t) == IF t > 0 THEN t ELSE 0

\* Collection.Insert of a record into the incoming log: the store assigns
\* the next id.
Insert(col, command, account) ==
    Append(col, [id |-> now + 1, command |-> command, account |-> account])

\* Mutant of WakeUp: no wake record is inserted.
WakeUpNothing(col) == col

\* refreshPlugins wakes the tail up by inserting a dummy pong record.
WakeUp(col) == Insert(col, cmdPong, rollbackAccount)

\* The records a query {_id: {$gt: pos}} sorted by $natural yields.
After(pos) == {i \in 1..Len(incomcol) : incomcol[i].id > pos}

HasNext(pos) == After(pos) # {}

NextRecord(pos) ==
    incomcol[CHOOSE i \in After(pos) : \A j \in After(pos) : i <= j]

Running == {p \in PluginNames : plugins[p].running}

\* Plugger.Target(msg) # nil: the plugin's target names the record's account.
Target(p, m) == plugins[p].targets = m.account

TypeOK ==
    /\ now \in Nat /\ ticks \in 0..MaxTicks
    /\ Len(incomcol) <= MaxStore
    /\ tomb \in {"none", "alive", "dying"}
    /\ lpc \in {"down", "init", "select", "dispatch", "persist", "rollback", "die", "diewait", "dead"}
    /\ tpc \in {"none", "start", "top", "next", "deliver", "sleep", "done"}
    /\ todo \subseteq PluginNames
    /\ Len(outgoing) <= MaxOut
    /\ amtomb \in {"none", "alive", "dying"}
    /\ client \in {"none", "up", "dying"}
    /\ apc \in {"none", "top", "next", "deliver", "sleep", "done"}

InitState ==
    /\ now = rollbackLimit + 1
    /\ ticks = 0
    /\ edits = 0
    /\ starts = 0
    /\ incomcol = <<>>
    /\ pluginsCol = [p \in PluginNames |-> NoDoc]
    /\ tomb = "none"
    /\ plugins = [p \in PluginNames |-> NoPlugin]
    /\ lpc = "down"
    /\ lmsg = NoMsg
    /\ todo = {}
    /\ cur = ""
    /\ rollbackId = 0
    /\ tpc = "none"
    /\ lastId = 0
    /\ iterPos = 0
    /\ msg = NoMsg
    /\ handled = [p \in PluginNames |-> <<>>]
    /\ covered = [p \in PluginNames |-> FALSE]
    /\ got = NoRequest
    /\ aedits = 0
    /\ astarts = 0
    /\ outgoing = <<>>
    /\ accountsCol = NoAccount
    /\ amtomb = "none"
    /\ client = "none"
    /\ apc = "none"
    /\ alastId = 0
    /\ aiterPos = 0
    /\ amsg = NoOut
    /\ handed = {}
    /\ cpend = 0
    /\ probed = {}
    /\ asent = <<>>
    /\ astartId = 0
    /\ amIn = NoIn
    /\ synced = FALSE
    /\ mismatched = [p \in PluginNames |-> {}]
    /\ asynced = FALSE
    /\ life = NoLife

\* No Refresh is called, no tick waits; on says whether config.Refresh > 0.
QuietRef(on) ==
    [refreshOn |-> on, rpc |-> "idle", pbegan |-> FALSE, tickc |-> FALSE,
     arpc |-> "idle", apbegan |-> FALSE, atickc |-> FALSE]

InitOwn == io = NoIo

\* The number of records the incoming and the outgoing log may hold.
storeCap == io.storeCap
outCap == io.outCap

\* Every plugin is enabled and registered.
Init ==
    /\ InitState
    /\ InitOwn
    /\ ref = QuietRef(TRUE)
    /\ configPlugins = NilPlugins
    /\ registeredPlugins = {pluginKey(p) : p \in PluginNames}

\* The same, with room for three records in each log.
FullInit ==
    /\ InitState
    /\ io = FullLogs
    /\ ref = QuietRef(TRUE)
    /\ configPlugins = NilPlugins
    /\ registeredPlugins = {pluginKey(p) : p \in PluginNames}

\* ---- the environment ----------------------------------------------------

\* A chat message is stored in the incoming log (accountManager.loop, or a
\* plugin through handleMessage).
InsertIncoming(a) ==
    /\ UNCHANGED <<accVars, extVars>>
    /\ UNCHANGED <<cfgVars, synced, mismatched>>
    /\ Len(incomcol) < storeCap
    /\ incomcol' = Insert(incomcol, cmdPrivMsg, a)
    /\ now' = now + 1
    /\ UNCHANGED <<ticks, edits, starts, pluginsCol, tomb, plugins, loopVars, tailVars, histVars>>

\* More than rollbackLimit passes without an insert.
Tick ==
    /\ UNCHANGED <<accVars, extVars>>
    /\ UNCHANGED <<cfgVars, synced, mismatched>>
    /\ ticks < MaxTicks
    /\ ticks' = ticks + 1
    /\ now' = now + rollbackLimit + 1
    /\ UNCHANGED <<edits, starts, incomcol, pluginsCol, tomb, plugins, loopVars, tailVars, histVars>>

\* The operator adds, edits or removes a plugin document.
DbInsert(p, c, t) ==
    /\ UNCHANGED <<accVars, extVars>>
    /\ UNCHANGED <<cfgVars, mismatched>> /\ synced' = FALSE
    /\ ~pluginsCol[p].present
    /\ pluginsCol' = [pluginsCol EXCEPT ![p] =
                        [present |-> TRUE, config |-> c, targets |-> t, lastid |-> 0]]
    /\ edits < MaxEdits /\ edits' = edits + 1
    /\ UNCHANGED <<now, ticks, starts, incomcol, tomb, plugins, loopVars, tailVars, histVars>>

DbUpdate(p, c, t) ==
    /\ UNCHANGED <<accVars, extVars>>
    /\ UNCHANGED <<cfgVars, mismatched>> /\ synced' = FALSE
    /\ pluginsCol[p].present
    /\ <<c, t>> # <<pluginsCol[p].config, pluginsCol[p].targets>>
    /\ pluginsCol' = [pluginsCol EXCEPT ![p].config = c, ![p].targets = t]
    /\ edits < MaxEdits /\ edits' = edits + 1
    /\ UNCHANGED <<now, ticks, starts, incomcol, tomb, plugins, loopVars, tailVars, histVars>>

DbRemove(p) ==
    /\ UNCHANGED <<accVars, extVars>>
    /\ UNCHANGED <<cfgVars, mismatched>> /\ synced' = FALSE
    /\ pluginsCol[p].present
    /\ pluginsCol' = [pluginsCol EXCEPT ![p] = NoDoc]
    /\ edits < MaxEdits /\ edits' = edits + 1
    /\ UNCHANGED <<now, ticks, starts, incomcol, tomb, plugins, loopVars, tailVars, histVars>>

\* ---- startPluginManager / crash -----------------------------------------

Down ==
    /\ tomb' = "none"
    /\ plugins' = [p \in PluginNames |-> NoPlugin]
    /\ lpc' = "down" /\ lmsg' = NoMsg /\ todo' = {} /\ cur' = "" /\ rollbackId' = 0
    /\ tpc' = "none" /\ lastId' = 0 /\ iterPos' = 0 /\ msg' = NoMsg
    /\ handled' = [p \in PluginNames |-> <<>>]
    /\ covered' = [p \in PluginNames |-> FALSE]
    /\ got' = NoRequest
    /\ synced' = FALSE
    /\ mismatched' = [p \in PluginNames |-> {}]

\* startPluginManager: m.tomb.Go(m.loop); loop starts the tail goroutine.
startPluginManager ==
    /\ UNCHANGED <<accVars, extVars>>
    /\ UNCHANGED <<cfgVars, synced, mismatched>>
    /\ lpc = "down"
    /\ starts < MaxStarts /\ starts' = starts + 1
    /\ tomb' = "alive"
    /\ lpc' = "init"
    /\ tpc' = "start"
    /\ UNCHANGED <<now, ticks, edits, incomcol, pluginsCol, plugins, lmsg, todo, cur,
                   rollbackId, lastId, iterPos, msg, histVars>>

\* The process dies at an arbitrary point: memory is lost, the store stays.
Crash ==
    /\ UNCHANGED <<accVars, extVars>>
    /\ UNCHANGED cfgVars
    /\ lpc # "down"
    /\ Down
    /\ UNCHANGED <<now, ticks, edits, starts, incomcol, pluginsCol>>

\* ---- refreshPlugins ------------------------------------------------------

\* pluginOn: no list enables every plugin; a list enables the names it
\* holds and the names that continue one of them with a slash.
pluginOn(name) ==
    LET n == Chars(name)
    IN  \/ configPlugins.nil
        \/ /\ ~configPlugins.nil
           /\ \E i \in 1..Len(configPlugins.names) :
                 LET cname == configPlugins.names[i]
                 IN  \/ n = cname
                     \/ /\ Len(n) > Len(cname)
                        /\ n[Len(cname) + 1] = "/"
                        /\ SubSeq(n, 1, Len(cname)) = cname

\* Mutant of pluginChanged: the targets blob is not compared.
pluginChangedConfigOnly(a, b) == a.config # b.config

\* Mutant of pluginChanged: every running plugin counts as changed.
pluginChangedAlways(a, b) == TRUE

pluginChanged(a, b) == a.config # b.config \/ a.targets # b.targets

\* Mutant of startLastId: the loaded lastid is dropped for the time limit.
startLastIdLimitOnly(info) == NewObjectIdWithTime(now - rollbackLimit)

\* The position startPlugin gives a new instance.
startLastId(info) ==
    LET limit == NewObjectIdWithTime(now - rollbackLimit)
    IN  IF info.lastid = 0 \/ info.lastid < limit THEN limit ELSE info.lastid

\* startPlugin's result.
startPlugin(info) ==
    [running |-> TRUE, config |-> info.config, targets |-> info.targets,
     lastid |-> startLastId(info)]

Infos == {p \in PluginNames : pluginsCol[p].present}

\* seen: the fetched documents the first loop does not skip.
Seen == {p \in Infos : pluginOn(p)}

\* Running plugins the pass stops: in the first loop the ones whose blobs
\* changed, in the second loop the ones that were not seen.
StoppedNow ==
    {p \in Running : p \notin Seen \/ pluginChanged(plugins[p], pluginsCol[p])}

\* A startPlugin that does not look the key up.
StartedAnyKey ==
    {p \in Seen : ~plugins[p].running \/ pluginChanged(plugins[p], pluginsCol[p])}

\* Names the pass starts: new ones and running ones whose blobs changed,
\* when startPlugin finds their key registered.
Started ==
    {p \in Seen : /\ pluginKey(p) \in registeredPlugins
                  /\ \/ ~plugins[p].running
                     \/ pluginChanged(plugins[p], pluginsCol[p])}

\* Mutant of RefreshedPlugins: the second loop is missing.
RefreshedPluginsNoRemoval ==
    [p \in PluginNames |->
        IF p \in Started THEN startPlugin(pluginsCol[p])
        ELSE IF p \in StoppedNow /\ p \in Seen THEN NoPlugin
        ELSE plugins[p]]

\* m.plugins when the pass is over.
RefreshedPlugins ==
    [p \in PluginNames |->
        IF p \in Started THEN startPlugin(pluginsCol[p])
        ELSE IF p \in StoppedNow THEN NoPlugin
        ELSE plugins[p]]

\* The calls the pass makes on the instances of name p, in order.
Calls(p) ==
    (IF p \in StoppedNow THEN <<"Stop">> ELSE <<>>)
        \o (IF p \in Started THEN <<"Start">> ELSE <<>>)

MaxOf(S) == CHOOSE x \in S : \A y \in S : x >= y

\* Mutant of RollbackIdOf: the newest position instead of the oldest.
RollbackIdNewest(S) == MaxOf({startLastId(pluginsCol[p]) : p \in S})

MinOf(S) == CHOOSE x \in S : \A y \in S : x <= y

\* The oldest position among the plugins the pass started.
RollbackIdOf(S) == MinOf({startLastId(pluginsCol[p]) : p \in S})

RefreshHist(ok) ==
    /\ handled' = [p \in PluginNames |->
                     IF p \in Started \/ ~RefreshedPlugins[p].running
                     THEN <<>> ELSE handled[p]]
    /\ covered' = [p \in PluginNames |->
                     IF p \in Started THEN ok
                     ELSE IF RefreshedPlugins[p].running THEN covered[p] ELSE FALSE]
    /\ mismatched' = [p \in PluginNames |->
                        IF RefreshedPlugins[p].running THEN mismatched[p] ELSE {}]
    /\ UNCHANGED got

\* refreshPlugins up to the send on m.rollback.  The pass runs on the loop
\* goroutine, at startup (handleRefresh before the loop) and on a refresh
\* request or tick.
RefreshPass ==
    /\ UNCHANGED accVars
    /\ UNCHANGED cfgVars
    /\ lpc \in {"init", "select"}
    /\ \/ \* the fetch of the plugin documents fails
          /\ lpc' = "select"
          /\ UNCHANGED <<now, incomcol, plugins, rollbackId, histVars, synced, mismatched>>
       \/ \* nothing started: no wake record, no request
          /\ Started = {}
          /\ plugins' = RefreshedPlugins
          /\ RefreshHist(FALSE)
          /\ synced' = TRUE
          /\ lpc' = "select"
          /\ UNCHANGED <<now, incomcol, rollbackId>>
       \/ \* the insert of the wake record fails: return
          /\ Started # {}
          /\ plugins' = RefreshedPlugins
          /\ RefreshHist(FALSE)
          /\ synced' = TRUE
          /\ lpc' = "select"
          /\ UNCHANGED <<now, incomcol, rollbackId>>
       \/ \* wake record inserted, block sending the oldest id
          /\ Started # {}
          /\ Len(incomcol) < storeCap
          /\ plugins' = RefreshedPlugins
          /\ RefreshHist(TRUE)
          /\ synced' = TRUE
          /\ incomcol' = WakeUp(incomcol)
          /\ now' = now + 1
          /\ rollbackId' = RollbackIdOf(Started)
          /\ lpc' = "rollback"
    /\ UNCHANGED <<ticks, edits, starts, pluginsCol, tomb, lmsg, todo, cur, tailVars>>

\* A pass, whatever made the loop run it.
refreshPlugins ==
    /\ UNCHANGED extVars
    /\ RefreshPass

\* ---- pluginManager.loop ---------------------------------------------------

\* Mutant of LoopReceives: the pong filter is missing.
LoopReceivesAll(m) ==
    IF Running = {}
    THEN /\ lpc' = "select"
         /\ UNCHANGED <<lmsg, todo>>
    ELSE /\ lpc' = "dispatch"
         /\ lmsg' = m
         /\ todo' = Running

\* What the loop does with a record received from m.incoming.
LoopReceives(m) ==
    IF m.command = cmdPong \/ Running = {}
    THEN /\ lpc' = "select"
         /\ UNCHANGED <<lmsg, todo>>
    ELSE /\ lpc' = "dispatch"
         /\ lmsg' = m
         /\ todo' = Running

\* Mutant of AfterPlugin: the range loop is left after the first plugin.
AfterPluginBreak(p) ==
    /\ todo' = todo \ {p}
    /\ lpc' = "select"
    /\ UNCHANGED lmsg

AfterPlugin(p) ==
    /\ todo' = todo \ {p}
    /\ IF todo \ {p} = {}
       THEN lpc' = "select" /\ lmsg' = NoMsg
       ELSE lpc' = "dispatch" /\ UNCHANGED lmsg

\* Mutant of Dispatch: the comparison with the plugin's lastid is missing.
DispatchAnyId(p) ==
    /\ UNCHANGED <<accVars, extVars>>
    /\ UNCHANGED <<cfgVars, synced, mismatched>>
    /\ lpc = "dispatch"
    /\ p \in todo
    /\ IF ~Target(p, lmsg)
       THEN /\ AfterPlugin(p)
            /\ UNCHANGED <<plugins, cur, handled>>
       ELSE /\ plugins' = [plugins EXCEPT ![p].lastid = lmsg.id]
            /\ handled' = [handled EXCEPT ![p] = Append(@, lmsg.id)]
            /\ cur' = p
            /\ lpc' = "persist"
            /\ UNCHANGED <<lmsg, todo>>
    /\ UNCHANGED <<now, ticks, edits, starts, incomcol, pluginsCol, tomb, rollbackId,
                   tailVars, covered, got>>

\* Mutant of Dispatch: the lastid is persisted before the handlers run.
DispatchPersistFirst(p) ==
    /\ UNCHANGED <<accVars, extVars>>
    /\ UNCHANGED <<cfgVars, synced, mismatched>>
    /\ lpc = "dispatch"
    /\ p \in todo
    /\ IF plugins[p].lastid >= lmsg.id \/ ~Target(p, lmsg)
       THEN /\ AfterPlugin(p)
            /\ UNCHANGED <<plugins, cur, handled, pluginsCol>>
       ELSE /\ plugins' = [plugins EXCEPT ![p].lastid = lmsg.id]
            /\ pluginsCol' = [pluginsCol EXCEPT ![p].lastid =
                                 IF pluginsCol[p].present THEN lmsg.id ELSE @]
            /\ handled' = [handled EXCEPT ![p] = Append(@, lmsg.id)]
            /\ cur' = p
            /\ lpc' = "persist"
            /\ UNCHANGED <<lmsg, todo>>
    /\ UNCHANGED <<now, ticks, edits, starts, incomcol, tomb, rollbackId, tailVars,
                   covered, got>>

\* One iteration of the range over m.plugins, up to the handlers' return.
Dispatch(p) ==
    /\ UNCHANGED <<accVars, extVars>>
    /\ UNCHANGED <<cfgVars, synced>>
    /\ lpc = "dispatch"
    /\ p \in todo
    /\ IF plugins[p].lastid >= lmsg.id \/ ~Target(p, lmsg)
       THEN /\ AfterPlugin(p)
            /\ mismatched' = IF plugins[p].lastid < lmsg.id
                             THEN [mismatched EXCEPT ![p] = @ \cup {lmsg.id}]
                             ELSE mismatched
            /\ UNCHANGED <<plugins, cur, handled>>
       ELSE /\ plugins' = [plugins EXCEPT ![p].lastid = lmsg.id]
            /\ handled' = [handled EXCEPT ![p] = Append(@, lmsg.id)]
            /\ UNCHANGED mismatched
            /\ cur' = p
            /\ lpc' = "persist"
            /\ UNCHANGED <<lmsg, todo>>
    /\ UNCHANGED <<now, ticks, edits, starts, incomcol, pluginsCol, tomb, rollbackId, tailVars,
                   covered, got>>

\* plugins.UpdateId(name, {$set: {lastid: msg.Id}}): fails when the store is
\* unreachable or the document is gone; the error is only logged.
Persist ==
    /\ UNCHANGED <<accVars, extVars>>
    /\ UNCHANGED <<cfgVars, synced, mismatched>>
    /\ lpc = "persist"
    /\ \/ /\ pluginsCol[cur].present
          /\ pluginsCol' = [pluginsCol EXCEPT ![cur].lastid = lmsg.id]
       \/ UNCHANGED pluginsCol
    /\ AfterPlugin(cur)
    /\ cur' = ""
    /\ UNCHANGED <<now, ticks, edits, starts, incomcol, tomb, plugins, rollbackId, tailVars, histVars>>

\* pluginRequestStop: the loop returns and die() stops every plugin, then
\* kills the tomb.
LoopStop ==
    /\ UNCHANGED <<accVars, extVars>>
    /\ UNCHANGED cfgVars
    /\ lpc = "select"
    /\ lpc' = "dead"
    /\ plugins' = [p \in PluginNames |-> NoPlugin]
    /\ tomb' = "dying"
    /\ handled' = [p \in PluginNames |-> <<>>]
    /\ covered' = [p \in PluginNames |-> FALSE]
    /\ got' = NoRequest
    /\ synced' = FALSE
    /\ mismatched' = [p \in PluginNames |-> {}]
    /\ UNCHANGED <<now, ticks, edits, starts, incomcol, pluginsCol, lmsg, todo, cur, rollbackId, tailVars>>

\* Stop returns once both goroutines are gone (tomb.Wait).
Stopped ==
    /\ UNCHANGED <<accVars, extVars>>
    /\ UNCHANGED cfgVars
    /\ lpc = "dead"
    /\ tpc = "done"
    /\ Down
    /\ UNCHANGED <<now, ticks, edits, starts, incomcol, pluginsCol>>

\* ---- pluginManager.tail ---------------------------------------------------

\* lastId := bson.NewObjectIdWithTime(time.Now().Add(-rollbackLimit))
TailStart ==
    /\ UNCHANGED <<accVars, extVars>>
    /\ UNCHANGED <<cfgVars, synced, mismatched>>
    /\ tpc = "start"
    /\ lastId' = NewObjectIdWithTime(now - rollbackLimit)
    /\ tpc' = "top"
    /\ UNCHANGED <<now, ticks, edits, starts, incomcol, pluginsCol, tomb, plugins,
                   loopVars, iterPos, msg, histVars>>

\* Mutant of Rollback: the request is taken without the comparison.
RollbackAlways(id, pos) == id

\* The position after a rollback request: if rollbackId < lastId { lastId = rollbackId }
Rollback(id, pos) == IF id < pos THEN id ELSE pos

\* Mutant of TailTop: the iterator is opened before the request is applied.
TailTopStale ==
    /\ UNCHANGED <<accVars, extVars>>
    /\ UNCHANGED <<cfgVars, synced, mismatched>>
    /\ tpc = "top"
    /\ IF tomb # "alive"
       THEN /\ tpc' = "done"
            /\ got' = NoRequest
            /\ UNCHANGED <<lastId, iterPos, lpc, rollbackId>>
       ELSE /\ IF lpc = "rollback"
               THEN /\ lastId' = Rollback(rollbackId, lastId)
                    /\ got' = [id |-> rollbackId, before |-> lastId, at |-> "top"]
                    /\ lpc' = "select"
                    /\ rollbackId' = 0
               ELSE /\ got' = NoRequest
                    /\ UNCHANGED <<lastId, lpc, rollbackId>>
            /\ iterPos' = lastId
            /\ tpc' = "next"
    /\ UNCHANGED <<now, ticks, edits, starts, incomcol, pluginsCol, tomb, plugins,
                   lmsg, todo, cur, msg, handled, covered>>

\* Head of the NextTail loop: the non-blocking receive on m.rollback, then
\* a new iterator at lastId.
TailTop ==
    /\ UNCHANGED <<accVars, extVars>>
    /\ UNCHANGED <<cfgVars, synced, mismatched>>
    /\ tpc = "top"
    /\ IF tomb # "alive"
       THEN /\ tpc' = "done"
            /\ got' = NoRequest
            /\ UNCHANGED <<lastId, iterPos, lpc, rollbackId>>
       ELSE /\ IF lpc = "rollback"
               THEN /\ lastId' = Rollback(rollbackId, lastId)
                    /\ got' = [id |-> rollbackId, before |-> lastId, at |-> "top"]
                    /\ lpc' = "select"
                    /\ rollbackId' = 0
               ELSE /\ got' = NoRequest
                    /\ UNCHANGED <<lastId, lpc, rollbackId>>
            /\ iterPos' = lastId'
            /\ tpc' = "next"
    /\ UNCHANGED <<now, ticks, edits, starts, incomcol, pluginsCol, tomb, plugins,
                   lmsg, todo, cur, msg, handled, covered>>

\* iter.Next yields the next record of the query.
TailNextRecord ==
    /\ UNCHANGED <<accVars, extVars>>
    /\ UNCHANGED <<cfgVars, synced, mismatched>>
    /\ tpc = "next"
    /\ tomb = "alive"
    /\ HasNext(iterPos)
    /\ msg' = NextRecord(iterPos)
    /\ iterPos' = msg'.id
    /\ tpc' = "deliver"
    /\ got' = NoRequest
    /\ UNCHANGED <<now, ticks, edits, starts, incomcol, pluginsCol, tomb, plugins,
                   loopVars, lastId, handled, covered>>

\* iter.Next returns false on a timeout: the same iterator is tried again.
TailNextTimeout ==
    /\ tpc = "next"
    /\ tomb = "alive"
    /\ ~HasNext(iterPos)
    /\ UNCHANGED vars

\* iter.Next returns false with iter.Err() # nil, or the tomb is not alive
\* any more: leave the inner loop and close the iterator.
TailNextFail ==
    /\ UNCHANGED <<accVars, extVars>>
    /\ UNCHANGED <<cfgVars, synced, mismatched>>
    /\ tpc = "next"
    /\ tpc' = "sleep"
    /\ iterPos' = 0
    /\ got' = NoRequest
    /\ UNCHANGED <<now, ticks, edits, starts, incomcol, pluginsCol, tomb, plugins,
                   loopVars, lastId, msg, handled, covered>>

\* DeliverMsg, case m.incoming <- msg: the loop takes the record.
TailDeliver ==
    /\ UNCHANGED <<accVars, extVars>>
    /\ UNCHANGED <<cfgVars, synced, mismatched>>
    /\ tpc = "deliver"
    /\ lpc = "select"
    /\ lastId' = msg.id
    /\ msg' = NoMsg
    /\ tpc' = "next"
    /\ got' = NoRequest
    /\ LoopReceives(msg)
    /\ UNCHANGED <<now, ticks, edits, starts, incomcol, pluginsCol, tomb, plugins,
                   cur, rollbackId, iterPos, handled, covered>>

\* Mutant of TailRollback: after a rollback the tail leaves through the
\* backoff sleep instead of continuing at NextTail.
TailRollbackSleep ==
    /\ UNCHANGED <<accVars, extVars>>
    /\ UNCHANGED <<cfgVars, synced, mismatched>>
    /\ tpc = "deliver"
    /\ lpc = "rollback"
    /\ lpc' = "select"
    /\ rollbackId' = 0
    /\ got' = [id |-> rollbackId, before |-> lastId, at |-> "deliver"]
    /\ lastId' = Rollback(rollbackId, lastId)
    /\ IF rollbackId < lastId
       THEN msg' = NoMsg /\ iterPos' = 0 /\ tpc' = "sleep"
       ELSE UNCHANGED <<msg, iterPos, tpc>>
    /\ UNCHANGED <<now, ticks, edits, starts, incomcol, pluginsCol, tomb, plugins,
                   lmsg, todo, cur, handled, covered>>

\* DeliverMsg, case rollbackId := <-m.rollback
TailRollback ==
    /\ UNCHANGED <<accVars, extVars>>
    /\ UNCHANGED <<cfgVars, synced, mismatched>>
    /\ tpc = "deliver"
    /\ lpc = "rollback"
    /\ lpc' = "select"
    /\ rollbackId' = 0
    /\ got' = [id |-> rollbackId, before |-> lastId, at |-> "deliver"]
    /\ lastId' = Rollback(rollbackId, lastId)
    /\ IF rollbackId < lastId
       THEN msg' = NoMsg /\ iterPos' = 0 /\ tpc' = "top"
       ELSE UNCHANGED <<msg, iterPos, tpc>>
    /\ UNCHANGED <<now, ticks, edits, starts, incomcol, pluginsCol, tomb, plugins,
                   lmsg, todo, cur, handled, covered>>

\* DeliverMsg, case <-m.tomb.Dying()
TailDying ==
    /\ UNCHANGED <<accVars, extVars>>
    /\ UNCHANGED <<cfgVars, synced, mismatched>>
    /\ tpc = "deliver"
    /\ tomb = "dying"
    /\ msg' = NoMsg /\ iterPos' = 0 /\ tpc' = "done"
    /\ got' = NoRequest
    /\ UNCHANGED <<now, ticks, edits, starts, incomcol, pluginsCol, tomb, plugins,
                   loopVars, lastId, handled, covered>>

\* TailSleep that returns after a failed read whatever the tomb says.
TailSleepReturns ==
    /\ UNCHANGED <<accVars, extVars>>
    /\ UNCHANGED <<cfgVars, synced, mismatched>>
    /\ tpc = "sleep"
    /\ tpc' = "done"
    /\ UNCHANGED <<now, ticks, edits, starts, incomcol, pluginsCol, tomb, plugins,
                   loopVars, lastId, iterPos, msg, histVars>>

\* iter.Close, then the backoff sleep unless the tomb is dying.
TailSleep ==
    /\ UNCHANGED <<accVars, extVars>>
    /\ UNCHANGED <<cfgVars, synced, mismatched>>
    /\ tpc = "sleep"
    /\ tpc' = IF tomb = "dying" THEN "done" ELSE "top"
    /\ UNCHANGED <<now, ticks, edits, starts, incomcol, pluginsCol, tomb, plugins,
                   loopVars, lastId, iterPos, msg, histVars>>

Next ==
    \/ \E a \in Accounts : InsertIncoming(a)
    \/ Tick
    \/ \E p \in PluginNames : \E b \in Blobs(p) : DbInsert(p, b[1], b[2])
    \/ \E p \in PluginNames : \E b \in Blobs(p) : DbUpdate(p, b[1], b[2])
    \/ \E p \in PluginNames : DbRemove(p)
    \/ startPluginManager
    \/ Crash
    \/ refreshPlugins
    \/ \E p \in PluginNames : Dispatch(p)
    \/ Persist
    \/ LoopStop
    \/ Stopped
    \/ TailStart
    \/ TailTop
    \/ TailNextRecord
    \/ TailNextTimeout
    \/ TailNextFail
    \/ TailDeliver
    \/ TailRollback
    \/ TailDying
    \/ TailSleep

Spec == Init /\ [][Next]_vars

FullSpec == FullInit /\ [][Next]_vars

\* Deployments in which a stored document is not to run: a list that
\* enables the names under "q" only, and a registry without "q".
Deployments ==
    { <<ListedPlugins(<< <<"q">> >>), {pluginKey(p) : p \in PluginNames}>>,
      <<NilPlugins, {pluginKey("p")}>> }

ReconInit ==
    /\ InitState
    /\ InitOwn
    /\ ref = QuietRef(TRUE)
    /\ \E d \in Deployments : configPlugins = d[1] /\ registeredPlugins = d[2]

ReconSpec == ReconInit /\ [][Next]_vars

\* The scheduler runs a goroutine that can take a step: the tail is not held
\* up forever at a step it can take.  A failure of the store is never owed.
TailFairness ==
    /\ WF_vars(TailStart)
    /\ WF_vars(TailTop)
    /\ WF_vars(TailNextRecord)
    /\ WF_vars(TailDeliver)
    /\ WF_vars(TailRollback)
    /\ WF_vars(TailDying)
    /\ WF_vars(TailSleep)

\* The deployment of the long checks: the key of plugin "p" is registered,
\* the key of "q/x" is not.
OnePluginInit ==
    /\ InitState
    /\ InitOwn
    /\ ref = QuietRef(TRUE)
    /\ configPlugins = NilPlugins
    /\ registeredPlugins = {pluginKey("p")}

FairSpec == OnePluginInit /\ [][Next]_vars /\ TailFairness

\* ---- the end of the tail (C34) ---------------------------------------------

\* iter.Next returns within the two seconds of its timeout; with the tomb
\* dying the test m.tomb.Alive() of the inner loop ends it.
TailNextDying == tomb = "dying" /\ TailNextFail

\* The tail is not held up forever in a read once the tomb is dying.
TailStopFairness == TailFairness /\ WF_vars(TailNextDying)

TailStopSpec == OnePluginInit /\ [][Next]_vars /\ TailStopFairness

\* ---- the account manager (src/plugger_test.go) ----------------------------

\* Mutant of OutAfter: the query does not name the account.
OutAfterAnyAccount(pos) == {i \in 1..Len(outgoing) : outgoing[i].id > pos}

\* The records a query {_id: {$gt: pos}, account: "a"} sorted by $natural
\* yields.
OutAfter(pos) ==
    {i \in 1..Len(outgoing) : outgoing[i].id > pos /\ outgoing[i].account = "a"}

OutHasNext(pos) == OutAfter(pos) # {}

OutNextRecord(pos) ==
    outgoing[CHOOSE i \in OutAfter(pos) : \A j \in OutAfter(pos) : i <= j]

\* A plugin queues a chat message in the outgoing log.
OutInsert(a) ==
    /\ UNCHANGED asynced
    /\ UNCHANGED <<clientVars, ahistVars>> /\ amIn' = NoIn
    /\ Len(outgoing) < outCap
    /\ outgoing' = Append(outgoing, [id |-> now + 1, account |-> a])
    /\ now' = now + 1
    /\ UNCHANGED <<pluginVars, aedits, astarts, accountsCol, amtomb, client, apc, alastId,
                   aiterPos, amsg, handed>>

\* The operator adds the document of account "a".
AccDbInsert ==
    /\ asynced' = FALSE
    /\ UNCHANGED <<clientVars, ahistVars>> /\ amIn' = NoIn
    /\ aedits < MaxAccEdits
    /\ ~accountsCol.present
    /\ aedits' = aedits + 1
    /\ accountsCol' = [present |-> TRUE, lastid |-> 0]
    /\ UNCHANGED <<now, pluginVars, astarts, outgoing, amtomb, client, apc, alastId, aiterPos,
                   amsg, handed>>

\* The operator removes the document of account "a".
AccDbRemove ==
    /\ asynced' = FALSE
    /\ UNCHANGED <<clientVars, ahistVars>> /\ amIn' = NoIn
    /\ aedits < MaxAccEdits
    /\ accountsCol.present
    /\ aedits' = aedits + 1
    /\ accountsCol' = NoAccount
    /\ UNCHANGED <<now, pluginVars, astarts, outgoing, amtomb, client, apc, alastId, aiterPos,
                   amsg, handed>>

\* startIrcClient(info, am.incoming): the client's LastId is the lastid of
\* the account document.
clientLastId(info) == info.lastid

\* accountManager.handleRefresh: drop the client of a dead or deleted
\* account, start a client and its tail for an account without one.  The
\* tail begins with lastId := client.LastId.  The tail of a dropped client
\* can only return, so it is not followed once a new one is started.
\* The first loop of handleRefresh calls client.Stop and deletes the client.
AccDrops == client # "none" /\ (client = "dying" \/ ~accountsCol.present)

\* The second loop of handleRefresh calls startIrcClient and starts a tail.
AccStarts == accountsCol.present /\ (client = "none" \/ AccDrops)

handleRefresh(ok) ==
    LET drop  == AccDrops
        start == AccStarts
    IN  IF ~ok
        THEN UNCHANGED <<client, apc, alastId, aiterPos, amsg, cpend, ahistVars, asynced>>
        ELSE /\ asynced' = TRUE
             /\ client' = IF start THEN "up" ELSE IF drop THEN "none" ELSE client
             /\ cpend' = IF start \/ drop THEN 0 ELSE cpend
             /\ IF start
                THEN /\ apc' = "top"
                     /\ alastId' = clientLastId(accountsCol)
                     /\ aiterPos' = 0
                     /\ amsg' = NoOut
                     /\ asent' = <<>>
                     /\ astartId' = clientLastId(accountsCol)
                ELSE UNCHANGED <<apc, alastId, aiterPos, amsg, ahistVars>>

\* startAccountManager: the loop goroutine starts with a reconciliation
\* pass.  The goroutines of a previous run have ended.
startAccountManager ==
    /\ UNCHANGED probed /\ amIn' = NoIn
    /\ amtomb = "none"
    /\ apc \in {"none", "done"}
    /\ astarts < MaxAccStarts
    /\ astarts' = astarts + 1
    /\ amtomb' = "alive"
    /\ \E ok \in BOOLEAN : handleRefresh(ok)
    /\ UNCHANGED <<now, pluginVars, aedits, outgoing, accountsCol, handed>>

\* A refresh request or tick.
AccRefresh ==
    /\ UNCHANGED probed /\ amIn' = NoIn
    /\ amtomb = "alive"
    /\ \E ok \in BOOLEAN : handleRefresh(ok)
    /\ UNCHANGED <<now, pluginVars, aedits, astarts, outgoing, accountsCol, amtomb, handed>>

\* The messages a client puts on am.incoming: echoes of the probes it
\* sent, other pongs of the server, and chat messages.
InMessages ==
    {[cmd |-> cmdPong, text |-> <<"sent:", id>>, account |-> "a"] : id \in probed}
    \cup {[cmd |-> cmdPong, text |-> <<"server">>, account |-> "a"],
          [cmd |-> cmdPrivMsg, text |-> <<"hello">>, account |-> "a"]}

\* strings.HasPrefix(msg.Text, "sent:")
HasPrefixSent(text) == Len(text) >= 1 /\ text[1] = "sent:"

\* bson.ObjectIdHex(msg.Text[5:])
ObjectIdHex(text) == text[2]

\* Mutant of AccIncoming: every pong is taken for a confirmation.
AccIncomingAnyPong(m) ==
    /\ amtomb = "alive"
    /\ m \in InMessages
    /\ amIn' = m
    /\ IF m.cmd = cmdPong
       THEN /\ \/ /\ accountsCol.present /\ m.account = "a"
                  /\ accountsCol' = [accountsCol EXCEPT !.lastid =
                                        IF HasPrefixSent(m.text) THEN ObjectIdHex(m.text)
                                        ELSE 0]
                  /\ UNCHANGED amtomb
               \/ /\ amtomb' = "dying"
                  /\ UNCHANGED accountsCol
            /\ UNCHANGED <<now, incomcol>>
       ELSE /\ \/ /\ Len(incomcol) < MaxIn
                  /\ incomcol' = Insert(incomcol, m.cmd, m.account)
                  /\ now' = now + 1
                  /\ UNCHANGED amtomb
               \/ /\ amtomb' = "dying"
                  /\ UNCHANGED <<now, incomcol>>
            /\ UNCHANGED accountsCol
    /\ UNCHANGED <<ticks, edits, starts, pluginsCol, tomb, plugins, lpc, lmsg, todo, cur,
                   rollbackId, tpc, lastId, iterPos, msg, handled, covered, got,
                   cfgVars, synced, mismatched, extVars>>
    /\ UNCHANGED <<aedits, astarts, outgoing, client, apc, alastId, aiterPos, amsg, handed,
                   clientVars, ahistVars, asynced>>

\* case msg := <-am.incoming: a pong "sent:<id>" writes the confirmed
\* position of the account, any other pong is dropped, every other message
\* is inserted in the incoming log; a failed update or insert kills the
\* manager.
AccIncoming(m) ==
    /\ amtomb = "alive"
    /\ m \in InMessages
    /\ amIn' = m
    /\ IF m.cmd = cmdPong
       THEN /\ IF HasPrefixSent(m.text)
               THEN \/ /\ accountsCol.present /\ m.account = "a"
                       /\ accountsCol' = [accountsCol EXCEPT !.lastid = ObjectIdHex(m.text)]
                       /\ UNCHANGED amtomb
                    \/ /\ amtomb' = "dying"
                       /\ UNCHANGED accountsCol
               ELSE UNCHANGED <<accountsCol, amtomb>>
            /\ UNCHANGED <<now, incomcol>>
       ELSE /\ \/ /\ Len(incomcol) < MaxIn
                  /\ incomcol' = Insert(incomcol, m.cmd, m.account)
                  /\ now' = now + 1
                  /\ UNCHANGED amtomb
               \/ /\ amtomb' = "dying"
                  /\ UNCHANGED <<now, incomcol>>
            /\ UNCHANGED accountsCol
    /\ UNCHANGED <<ticks, edits, starts, pluginsCol, tomb, plugins, lpc, lmsg, todo, cur,
                   rollbackId, tpc, lastId, iterPos, msg, handled, covered, got,
                   cfgVars, synced, mismatched, extVars>>
    /\ UNCHANGED <<aedits, astarts, outgoing, client, apc, alastId, aiterPos, amsg, handed,
                   clientVars, ahistVars, asynced>>

\* The connection of the client is lost: client.Dying is closed.
ClientDies ==
    /\ asynced' = FALSE
    /\ UNCHANGED <<clientVars, ahistVars>> /\ amIn' = NoIn
    /\ client = "up"
    /\ client' = "dying"
    /\ UNCHANGED <<now, pluginVars, aedits, astarts, outgoing, accountsCol, amtomb, apc,
                   alastId, aiterPos, amsg, handed>>

\* accountManager.Stop: am.tomb.Kill(errStop)
AccStop ==
    /\ asynced' = FALSE
    /\ UNCHANGED <<clientVars, ahistVars>> /\ amIn' = NoIn
    /\ amtomb = "alive"
    /\ amtomb' = "dying"
    /\ UNCHANGED <<now, pluginVars, aedits, astarts, outgoing, accountsCol, client, apc,
                   alastId, aiterPos, amsg, handed>>

\* The loop returns and die stops every client.
AccDie ==
    /\ asynced' = FALSE
    /\ cpend' = 0 /\ UNCHANGED <<probed, ahistVars>> /\ amIn' = NoIn
    /\ amtomb = "dying"
    /\ amtomb' = "none"
    /\ client' = "none"
    /\ UNCHANGED <<now, pluginVars, aedits, astarts, outgoing, accountsCol, apc, alastId,
                   aiterPos, amsg, handed>>

\* The client's loop is at its receive from client.Outgoing: the channel is
\* unbuffered and the record taken before is on the wire with its probe.
ClientReady == cpend = 0

\* The client writes the record it took and then the probe "PING sent:<id>".
ClientSendProbe ==
    /\ UNCHANGED asynced
    /\ client = "up"
    /\ cpend # 0
    /\ probed' = probed \cup {cpend}
    /\ cpend' = 0
    /\ amIn' = NoIn
    /\ UNCHANGED <<now, pluginVars, aedits, astarts, outgoing, accountsCol, amtomb, client, apc,
                   alastId, aiterPos, amsg, handed, ahistVars>>

\* Mutant of AccTailTop: the new iterator starts at the beginning of the log.
AccTailTopFromZero ==
    /\ UNCHANGED asynced
    /\ UNCHANGED <<clientVars, ahistVars>> /\ amIn' = NoIn
    /\ apc = "top"
    /\ IF amtomb = "alive"
       THEN apc' = "next" /\ aiterPos' = 0
       ELSE apc' = "done" /\ UNCHANGED aiterPos
    /\ UNCHANGED <<now, pluginVars, aedits, astarts, outgoing, accountsCol, amtomb, client,
                   alastId, amsg, handed>>

\* for am.tomb.Alive(): a new iterator at lastId.
AccTailTop ==
    /\ UNCHANGED asynced
    /\ UNCHANGED <<clientVars, ahistVars>> /\ amIn' = NoIn
    /\ apc = "top"
    /\ IF amtomb = "alive"
       THEN apc' = "next" /\ aiterPos' = alastId
       ELSE apc' = "done" /\ UNCHANGED aiterPos
    /\ UNCHANGED <<now, pluginVars, aedits, astarts, outgoing, accountsCol, amtomb, client,
                   alastId, amsg, handed>>

\* iter.Next yields the next record of the query.
AccTailNextRecord ==
    /\ UNCHANGED asynced
    /\ UNCHANGED <<clientVars, ahistVars>> /\ amIn' = NoIn
    /\ apc = "next"
    /\ OutHasNext(aiterPos)
    /\ amsg' = OutNextRecord(aiterPos)
    /\ aiterPos' = amsg'.id
    /\ apc' = "deliver"
    /\ UNCHANGED <<now, pluginVars, aedits, astarts, outgoing, accountsCol, amtomb, client,
                   alastId, handed>>

\* iter.Next returns false on a timeout: the same iterator is tried again.
AccTailNextTimeout ==
    /\ apc = "next"
    /\ amtomb = "alive"
    /\ ~OutHasNext(aiterPos)
    /\ UNCHANGED vars

\* iter.Next returns false with iter.Err() # nil, or the tomb is not alive
\* any more: leave the inner loop and close the iterator.
AccTailNextFail ==
    /\ UNCHANGED asynced
    /\ UNCHANGED <<clientVars, ahistVars>> /\ amIn' = NoIn
    /\ apc = "next"
    /\ apc' = IF amtomb = "alive" THEN "sleep" ELSE "done"
    /\ aiterPos' = 0
    /\ UNCHANGED <<now, pluginVars, aedits, astarts, outgoing, accountsCol, amtomb, client,
                   alastId, amsg, handed>>

\* case client.Outgoing <- msg: the client takes the record.
AccTailDeliver ==
    /\ UNCHANGED asynced
    /\ apc = "deliver"
    /\ client \in {"up", "dying"}
    /\ ClientReady
    /\ cpend' = amsg.id
    /\ asent' = Append(asent, amsg.id)
    /\ UNCHANGED <<probed, astartId>> /\ amIn' = NoIn
    /\ alastId' = amsg.id
    /\ handed' = handed \cup {amsg.id}
    /\ amsg' = NoOut
    /\ apc' = "next"
    /\ UNCHANGED <<now, pluginVars, aedits, astarts, outgoing, accountsCol, amtomb, client,
                   aiterPos>>

\* Mutant of AccTailDying: the pending record is counted as sent.
AccTailDyingAdvance ==
    /\ UNCHANGED asynced
    /\ UNCHANGED <<clientVars, ahistVars>> /\ amIn' = NoIn
    /\ apc = "deliver"
    /\ client \in {"dying", "none"}
    /\ apc' = "done"
    /\ alastId' = amsg.id
    /\ UNCHANGED <<now, pluginVars, aedits, astarts, outgoing, accountsCol, amtomb, client,
                   aiterPos, amsg, handed>>

\* case <-client.Dying: close the iterator and return.
AccTailDying ==
    /\ UNCHANGED asynced
    /\ UNCHANGED <<clientVars, ahistVars>> /\ amIn' = NoIn
    /\ apc = "deliver"
    /\ client \in {"dying", "none"}
    /\ apc' = "done"
    /\ UNCHANGED <<now, pluginVars, aedits, astarts, outgoing, accountsCol, amtomb, client,
                   alastId, aiterPos, amsg, handed>>

\* iter.Close, then the backoff sleep.
AccTailSleep ==
    /\ UNCHANGED asynced
    /\ UNCHANGED <<clientVars, ahistVars>> /\ amIn' = NoIn
    /\ apc = "sleep"
    /\ apc' = "top"
    /\ UNCHANGED <<now, pluginVars, aedits, astarts, outgoing, accountsCol, amtomb, client,
                   alastId, aiterPos, amsg, handed>>

AccNext ==
    \/ \E a \in OutAccounts : OutInsert(a)
    \/ AccDbInsert
    \/ AccDbRemove
    \/ startAccountManager
    \/ AccRefresh
    \/ \E m \in InMessages : AccIncoming(m)
    \/ ClientDies
    \/ ClientSendProbe
    \/ AccStop
    \/ AccDie
    \/ AccTailTop
    \/ AccTailNextRecord
    \/ AccTailNextTimeout
    \/ AccTailNextFail
    \/ AccTailDeliver
    \/ AccTailDying
    \/ AccTailSleep

\* The account manager on its own, the plugin manager down.
AccSpec == FullInit /\ [][AccNext]_vars

\* The two managers share no variable: each is run against the initial
\* state of the other, one of them per behaviour.
AccIdle == accVars = <<0, 0, <<>>, NoAccount, "none", "none", "none", 0, 0, NoOut, {},
                           <<0, {}>>, <<<<>>, 0>>, NoIn, FALSE>>

PluginIdle ==
    /\ starts = 0 /\ edits = 0 /\ ticks = 0 /\ lpc = "down"
    /\ AccIdle => incomcol = <<>>

TailsNext ==
    \/ AccIdle /\ (\E a \in Accounts : InsertIncoming(a))
    \/ AccIdle /\ Tick
    \/ AccIdle /\ (\E p \in PluginNames : \E b \in Blobs(p) : DbInsert(p, b[1], b[2]))
    \/ AccIdle /\ (\E p \in PluginNames : \E b \in Blobs(p) : DbUpdate(p, b[1], b[2]))
    \/ AccIdle /\ (\E p \in PluginNames : DbRemove(p))
    \/ AccIdle /\ startPluginManager
    \/ AccIdle /\ Crash
    \/ AccIdle /\ refreshPlugins
    \/ AccIdle /\ (\E p \in PluginNames : Dispatch(p))
    \/ AccIdle /\ Persist
    \/ AccIdle /\ LoopStop
    \/ AccIdle /\ Stopped
    \/ AccIdle /\ TailStart
    \/ AccIdle /\ TailTop
    \/ AccIdle /\ TailNextRecord
    \/ AccIdle /\ TailNextTimeout
    \/ AccIdle /\ TailNextFail
    \/ AccIdle /\ TailDeliver
    \/ AccIdle /\ TailRollback
    \/ AccIdle /\ TailDying
    \/ AccIdle /\ TailSleep
    \/ PluginIdle /\ (\E a \in OutAccounts : OutInsert(a))
    \/ PluginIdle /\ AccDbInsert
    \/ PluginIdle /\ AccDbRemove
    \/ PluginIdle /\ startAccountManager
    \/ PluginIdle /\ AccRefresh
    \/ PluginIdle /\ (\E m \in InMessages : AccIncoming(m))
    \/ PluginIdle /\ ClientDies
    \/ PluginIdle /\ ClientSendProbe
    \/ PluginIdle /\ AccStop
    \/ PluginIdle /\ AccDie
    \/ PluginIdle /\ AccTailTop
    \/ PluginIdle /\ AccTailNextRecord
    \/ PluginIdle /\ AccTailNextTimeout
    \/ PluginIdle /\ AccTailNextFail
    \/ PluginIdle /\ AccTailDeliver
    \/ PluginIdle /\ AccTailDying
    \/ PluginIdle /\ AccTailSleep

TailsSpec == OnePluginInit /\ [][TailsNext]_vars

\* ---- start, die and Stop, step by step ------------------------------------

Stopping == {p \in PluginNames : stopSt[p] = "stopping"}

\* Everything but the manager's own state and the lifecycle variables.
LifeFrame ==
    /\ UNCHANGED accVars
    /\ UNCHANGED <<cfgVars, now, ticks, edits, incomcol, pluginsCol>>

\* startPluginManager with its store session: the session is copied before
\* createCollections runs; ok says whether createCollections succeeds.
StartManager(ok) ==
    /\ LifeFrame
    /\ lpc = "down"
    /\ starts < MaxStarts /\ starts' = starts + 1
    /\ life' = [life EXCEPT !.session = session + 1]
    /\ IF ok THEN /\ tomb' = "alive"
                  /\ lpc' = "init"
                  /\ tpc' = "start"
             ELSE UNCHANGED <<tomb, lpc, tpc>>
    /\ UNCHANGED <<plugins, lmsg, todo, cur, rollbackId, lastId, iterPos, msg, histVars, synced,
                   mismatched, ref, io>>

\* startAccountManager when createCollections fails.
StartAccountManagerFails ==
    /\ UNCHANGED <<now, accVars>>
    /\ amtomb = "none"
    /\ asession < MaxStarts
    /\ life' = [life EXCEPT !.asession = asession + 1]
    /\ UNCHANGED <<ticks, edits, starts, incomcol, pluginsCol, tomb, plugins, loopVars,
                   tailVars, histVars, cfgVars, synced, mismatched, ref, io>>

\* refreshLdaps finds the document of the one LDAP connection and dials it.
refreshLdaps ==
    /\ LifeFrame
    /\ lpc \in {"init", "select"}
    /\ ldaps = "none"
    /\ life' = [life EXCEPT !.ldaps = "open", !.ldapConns = TRUE]
    /\ UNCHANGED <<starts, tomb, plugins, loopVars, tailVars, histVars, synced, mismatched, ref,
                   io>>

\* The loop receives pluginRequestStop and returns; the deferred die starts
\* one goroutine per plugin, each calling Stop.
DieStops ==
    /\ LifeFrame
    /\ lpc = "select"
    /\ lpc' = "die"
    /\ life' = [life EXCEPT !.stopSt =
                    [p \in PluginNames |-> IF plugins[p].running THEN "stopping" ELSE ""]]
    /\ UNCHANGED <<starts, tomb, plugins, lmsg, todo, cur, rollbackId, tailVars, histVars,
                   synced, mismatched, ref, io>>

\* die: m.ldapConns = nil, then one goroutine per connection calling Close.
DieLdaps ==
    /\ LifeFrame
    /\ lpc = "die"
    /\ lpc' = "diewait"
    /\ life' = [life EXCEPT !.ldapConns = FALSE,
                            !.ldaps = IF ldaps = "open" THEN "closing" ELSE ldaps]
    /\ UNCHANGED <<starts, tomb, plugins, lmsg, todo, cur, rollbackId, tailVars, histVars,
                   synced, mismatched, ref, io>>

\* A plugin's Stop returns.
StopReturns(p) ==
    /\ LifeFrame
    /\ stopSt[p] = "stopping"
    /\ life' = [life EXCEPT !.stopSt = [stopSt EXCEPT ![p] = "stopped"]]
    /\ UNCHANGED <<starts, tomb, plugins, loopVars, tailVars, histVars, synced, mismatched, ref,
                   io>>

\* The connection's Close returns.
CloseReturns ==
    /\ LifeFrame
    /\ ldaps = "closing"
    /\ life' = [life EXCEPT !.ldaps = "closed"]
    /\ UNCHANGED <<starts, tomb, plugins, loopVars, tailVars, histVars, synced, mismatched, ref,
                   io>>

\* wg.Wait() is over when every goroutine die started has called wg.Done.
AllReturned == Stopping = {} /\ ldaps # "closing"

\* What m.tomb.Kill(errStop) and the end of the loop goroutine leave behind.
Killed ==
    /\ lpc' = "dead"
    /\ tomb' = "dying"
    /\ plugins' = [p \in PluginNames |-> NoPlugin]
    /\ handled' = [p \in PluginNames |-> <<>>]
    /\ covered' = [p \in PluginNames |-> FALSE]
    /\ got' = NoRequest
    /\ synced' = FALSE
    /\ mismatched' = [p \in PluginNames |-> {}]
    /\ UNCHANGED <<starts, lmsg, todo, cur, rollbackId, tailVars, life, ref, io>>

\* die without its wg.Wait(): the tomb is killed as soon as the goroutines
\* are started.
DieKillNoWait ==
    /\ LifeFrame
    /\ lpc = "diewait"
    /\ Killed

\* die: wg.Wait(), then m.tomb.Kill(errStop).
DieKill ==
    /\ LifeFrame
    /\ lpc = "diewait"
    /\ AllReturned
    /\ Killed

\* Stop: m.tomb.Wait() returned, m.session.Close().
StopReturned ==
    /\ UNCHANGED accVars
    /\ UNCHANGED cfgVars
    /\ lpc = "dead"
    /\ tpc = "done"
    /\ Down
    /\ life' = [life EXCEPT !.session = session - 1,
                            !.stopSt = [p \in PluginNames |-> ""],
                            !.ldaps = "none"]
    /\ UNCHANGED <<ref, io>>
    /\ UNCHANGED <<now, ticks, edits, starts, incomcol, pluginsCol>>

\* sendMessage, handleMessage, ldapConn: each panics unless the tomb is alive.
ManagerCalls == {"sendMessage", "handleMessage", "ldapConn"}

\* Plugin p calls method f of the manager from inside its Stop.
CallFromStop(p, f) ==
    /\ stopSt[p] = "stopping"
    /\ UNCHANGED <<cfgVars, ticks, edits, starts, pluginsCol, tomb, plugins, loopVars, tailVars,
                   histVars, synced, mismatched, ref, io>>
    /\ UNCHANGED <<aedits, astarts, accountsCol, amtomb, client, apc, alastId, aiterPos, amsg,
                   handed, clientVars, ahistVars, amIn, asynced>>
    /\ IF tomb # "alive"
         THEN life' = [life EXCEPT !.panicked = TRUE] /\ UNCHANGED <<now, incomcol, outgoing>>
         ELSE /\ UNCHANGED life
              /\ CASE f = "sendMessage" /\ Len(outgoing) < outCap ->
                        /\ outgoing' = Append(outgoing, [id |-> now + 1, account |-> "a"])
                        /\ now' = now + 1
                        /\ UNCHANGED incomcol
                   [] f = "handleMessage" /\ Len(incomcol) < storeCap ->
                        /\ incomcol' = Insert(incomcol, cmdPrivMsg, "a")
                        /\ now' = now + 1
                        /\ UNCHANGED outgoing
                   [] OTHER -> UNCHANGED <<now, incomcol, outgoing>>

\* The plugin documents the operator inserts in LifeSpec.
LifeBlob == <<"c1", "a">>

\* One manager per behaviour: the account manager's failed start is explored
\* while the plugin manager was never started.
LifeNext ==
    \/ asession = 0 /\ (\E p \in PluginNames : DbInsert(p, LifeBlob[1], LifeBlob[2]))
    \/ asession = 0 /\ (\E ok \in BOOLEAN : StartManager(ok))
    \/ PluginIdle /\ StartAccountManagerFails
    \/ refreshLdaps
    \/ refreshPlugins
    \/ \E p \in PluginNames : Dispatch(p)
    \/ Persist
    \/ DieStops
    \/ DieLdaps
    \/ \E p \in PluginNames : StopReturns(p)
    \/ CloseReturns
    \/ DieKill
    \/ StopReturned
    \/ \E p \in PluginNames : \E f \in ManagerCalls :
          /\ f = "ldapConn" \/ Len(outgoing) + Len(incomcol) < MaxCalls
          /\ CallFromStop(p, f)
    \/ TailStart
    \/ TailTop
    \/ TailNextRecord
    \/ TailNextTimeout
    \/ TailNextFail
    \/ TailDeliver
    \/ TailRollback
    \/ TailDying
    \/ TailSleep

LifeSpec == Init /\ [][LifeNext]_vars

\* ---- Refresh and the ticker ------------------------------------------------

\* What the caller's side of pluginManager.Refresh and the ticker leave alone.
RefFrame ==
    /\ UNCHANGED <<now, accVars, ticks, edits, starts, incomcol, pluginsCol, tomb, plugins,
                   loopVars, tailVars, histVars, cfgVars, synced, mismatched>>
    /\ UNCHANGED <<life, io>>

\* pluginManager.Refresh is called: the caller blocks in its select.
RefreshCall ==
    /\ RefFrame
    /\ lpc # "down"
    /\ rpc = "idle"
    /\ ref' = [ref EXCEPT !.rpc = "sending", !.pbegan = FALSE]

\* m.handleRefresh() before the loop.
InitialPass ==
    /\ lpc = "init"
    /\ RefreshPass
    /\ ref' = [ref EXCEPT !.pbegan = TRUE]
    /\ UNCHANGED <<life, io>>

\* case req := <-m.requests, pluginRequestRefresh: m.handleRefresh()
RefreshAccepted ==
    /\ lpc = "select"
    /\ rpc = "sending"
    /\ RefreshPass
    /\ ref' = [ref EXCEPT !.rpc = "accepted", !.pbegan = TRUE]
    /\ UNCHANGED <<life, io>>

\* Refresh without its <-req.done: it returns once the request is taken.
RefreshReturnsEarly ==
    /\ RefFrame
    /\ rpc = "accepted"
    /\ ref' = [ref EXCEPT !.rpc = "idle"]

\* close(req.done) follows handleRefresh; the caller's <-req.done returns.
RefreshReturns ==
    /\ RefFrame
    /\ rpc = "accepted"
    /\ lpc # "rollback"
    /\ ref' = [ref EXCEPT !.rpc = "idle"]

\* Refresh, case <-m.tomb.Dying(): no pass.
RefreshDying ==
    /\ RefFrame
    /\ rpc = "sending"
    /\ tomb = "dying"
    /\ ref' = [ref EXCEPT !.rpc = "idle"]

\* The loop is past its first pass: the ticker exists if there is one.
InLoop == lpc \in {"select", "dispatch", "persist"}

\* A ticker that is created whatever m.config.Refresh is.
TimerFiresAlways ==
    /\ RefFrame
    /\ InLoop
    /\ ~tickc
    /\ ref' = [ref EXCEPT !.tickc = TRUE]

\* The ticker, created only if m.config.Refresh > 0, puts a tick in its
\* channel (it drops the tick when one is waiting).
TimerFires ==
    /\ refreshOn
    /\ TimerFiresAlways

\* case <-refresh: m.handleRefresh()
RefreshTick ==
    /\ lpc = "select"
    /\ tickc
    /\ RefreshPass
    /\ ref' = [ref EXCEPT !.tickc = FALSE, !.pbegan = TRUE]
    /\ UNCHANGED <<life, io>>

\* The same for the account manager.
AccRefFrame ==
    /\ UNCHANGED <<now, pluginsCol, ticks, edits, starts, incomcol, tomb, plugins, loopVars,
                   tailVars, histVars, cfgVars, synced, mismatched>>
    /\ UNCHANGED <<life, io>>

\* accountManager.Refresh is called: the caller blocks in am.requests <- req.
AccRefreshCall ==
    /\ AccRefFrame
    /\ UNCHANGED accVars
    /\ amtomb # "none"
    /\ arpc = "idle"
    /\ ref' = [ref EXCEPT !.arpc = "sending", !.apbegan = FALSE]

\* case req := <-am.requests: am.handleRefresh(); close(r.done)
AccRefreshAccepted ==
    /\ AccRefFrame
    /\ UNCHANGED probed /\ amIn' = NoIn
    /\ amtomb = "alive"
    /\ arpc = "sending"
    /\ \E ok \in BOOLEAN : handleRefresh(ok)
    /\ ref' = [ref EXCEPT !.arpc = "closed", !.apbegan = TRUE]
    /\ UNCHANGED <<aedits, astarts, outgoing, accountsCol, amtomb, handed>>

\* <-req.done returns.
AccRefreshReturns ==
    /\ AccRefFrame
    /\ UNCHANGED accVars
    /\ arpc = "closed"
    /\ ref' = [ref EXCEPT !.arpc = "idle"]

\* The account manager's ticker, created only if am.config.Refresh > 0.
AccTimerFires ==
    /\ AccRefFrame
    /\ UNCHANGED accVars
    /\ refreshOn
    /\ amtomb = "alive"
    /\ ~atickc
    /\ ref' = [ref EXCEPT !.atickc = TRUE]

\* case <-refresh: am.handleRefresh()
AccRefreshTick ==
    /\ AccRefFrame
    /\ UNCHANGED probed /\ amIn' = NoIn
    /\ amtomb = "alive"
    /\ atickc
    /\ \E ok \in BOOLEAN : handleRefresh(ok)
    /\ ref' = [ref EXCEPT !.atickc = FALSE, !.apbegan = TRUE]
    /\ UNCHANGED <<aedits, astarts, outgoing, accountsCol, amtomb, handed>>

RefreshInit ==
    /\ InitState
    /\ InitOwn
    /\ \E on \in BOOLEAN : ref = QuietRef(on)
    /\ configPlugins = NilPlugins
    /\ registeredPlugins = {pluginKey("p")}

\* Each manager is started once and runs against the initial state of the
\* other.
RefreshNext ==
    \/ AccIdle /\ (\E a \in Accounts : InsertIncoming(a))
    \/ AccIdle /\ (\E p \in PluginNames : \E b \in Blobs(p) : DbInsert(p, b[1], b[2]))
    \/ AccIdle /\ (\E p \in PluginNames : \E b \in Blobs(p) : DbUpdate(p, b[1], b[2]))
    \/ AccIdle /\ (\E p \in PluginNames : DbRemove(p))
    \/ AccIdle /\ startPluginManager
    \/ InitialPass
    \/ RefreshCall
    \/ RefreshAccepted
    \/ RefreshReturns
    \/ RefreshDying
    \/ TimerFires
    \/ RefreshTick
    \/ \E p \in PluginNames : Dispatch(p)
    \/ Persist
    \/ LoopStop
    \/ TailStart
    \/ TailTop
    \/ TailNextRecord
    \/ TailNextTimeout
    \/ TailNextFail
    \/ TailDeliver
    \/ TailRollback
    \/ TailDying
    \/ TailSleep
    \/ PluginIdle /\ AccDbInsert
    \/ PluginIdle /\ AccDbRemove
    \/ PluginIdle /\ astarts = 0 /\ startAccountManager
    \/ AccRefreshCall
    \/ AccRefreshAccepted
    \/ AccRefreshReturns
    \/ AccTimerFires
    \/ AccRefreshTick
    \/ ClientDies
    \/ AccStop

RefreshSpec == RefreshInit /\ [][RefreshNext]_vars

\* The loop of the account manager takes a request it can take, and the
\* caller of Refresh goes on once req.done is closed.
AccRefreshFairness == WF_vars(AccRefreshAccepted) /\ WF_vars(AccRefreshReturns)

AccRefreshFairSpec == RefreshSpec /\ AccRefreshFairness

\* ---- the channels of an account --------------------------------------------

Channels == {"#c1", "#c2", "#c3"}

\* The order in which a PART line names channels.
ChanOrder == <<"#c1", "#c2", "#c3">>

Range(s) == {s[i] : i \in 1..Len(s)}

\* The channel lists an account document may hold: no channel twice.
ChanConfigs ==
    {s \in UNION {[1..n -> Channels] : n \in 0..MaxChans} :
        \A i, j \in 1..Len(s) : i # j => s[i] # s[j]}

\* Everything but the channels.
ChanFrame ==
    /\ UNCHANGED <<now, accVars, ticks, edits, starts, incomcol, pluginsCol, tomb, plugins,
                   loopVars, tailVars, histVars, cfgVars, synced, mismatched>>
    /\ UNCHANGED <<life, ref>>

\* A refresh that asks for every configured channel, joined or not.
JoinLineAll(cfg, j) == cfg

\* The channels a refresh asks to join: configured and not confirmed, in the
\* order of the configuration.
JoinLine(cfg, j) == SelectSeq(cfg, LAMBDA c : c \notin j)

\* The channels a refresh asks to part: confirmed and not configured.
PartLine(cfg, j) == SelectSeq(ChanOrder, LAMBDA c : c \in j /\ c \notin Range(cfg))

\* The lines of one refresh: "JOIN #a,#b" and then "PART #c", each only if
\* it names a channel.
Lines(cfg, j) ==
    (IF JoinLine(cfg, j) = <<>> THEN <<>>
     ELSE <<[verb |-> "JOIN", chans |-> JoinLine(cfg, j)]>>)
    \o (IF PartLine(cfg, j) = <<>> THEN <<>>
        ELSE <<[verb |-> "PART", chans |-> PartLine(cfg, j)]>>)

\* The operator replaces the channel list of the account's document.
ChanConfigure(cfg) ==
    /\ ChanFrame
    /\ cfg # chanCfg
    /\ io' = [io EXCEPT !.chanCfg = cfg, !.touched = TRUE]

\* A refresh hands the document to the client, which writes its requests.
ChanRefresh ==
    /\ ChanFrame
    /\ nrefresh < MaxRefreshes
    /\ io' = [io EXCEPT !.nrefresh = nrefresh + 1,
                        !.cinfo = chanCfg,
                        !.wire = Lines(chanCfg, joined),
                        !.touched = FALSE]

\* The channels the lines w name after the given verb.
Requested(w, verb) ==
    UNION {Range(w[i].chans) : i \in {k \in 1..Len(w) : w[k].verb = verb}}

\* The server confirms that the client joined c.
ServerJoin(c) ==
    /\ ChanFrame
    /\ c \in Requested(wire, "JOIN")
    /\ c \notin joined
    /\ io' = [io EXCEPT !.joined = joined \cup {c}, !.touched = TRUE]

\* The server confirms that the client left c.
ServerPart(c) ==
    /\ ChanFrame
    /\ c \in Requested(wire, "PART")
    /\ c \in joined
    /\ io' = [io EXCEPT !.joined = joined \ {c}, !.touched = TRUE]

ChanNext ==
    \/ \E cfg \in ChanConfigs : ChanConfigure(cfg)
    \/ ChanRefresh
    \/ \E c \in Channels : ServerJoin(c)
    \/ \E c \in Channels : ServerPart(c)

\* No channel is configured, none joined, nothing written.
ChanInit ==
    /\ InitState
    /\ ref = QuietRef(TRUE)
    /\ configPlugins = NilPlugins
    /\ registeredPlugins = {pluginKey(p) : p \in PluginNames}
    /\ io = [chanCfg |-> <<>>, joined |-> {}, wire |-> <<>>, nrefresh |-> 0, touched |-> FALSE,
             cinfo |-> <<>>]

ChanSpec == ChanInit /\ [][ChanNext]_vars

\* ---- targets ----------------------------------------------------------------

TargetAccounts == {"one", "two"}
TargetChannels == {"#chan"}
TargetNicks == {"nick"}

\* The addresses a target may hold: every field may be unset.
Addresses ==
    [account : TargetAccounts \cup {""},
     channel : TargetChannels \cup {""},
     nick : TargetNicks \cup {""}]

\* The records an account delivers.
TargetRecords ==
    [id : {RecordId},
     account : TargetAccounts,
     channel : TargetChannels \cup {""},
     nick : TargetNicks \cup {""}]

TargetLists == UNION {[1..n -> Addresses] : n \in 0..MaxTargets}

\* CanSend that asks for an account only.
CanSendAccountOnly(t) == t.account # ""

\* Target.CanSend
CanSend(t) == t.account # "" /\ (t.channel # "" \/ t.nick # "")

\* A target matches a record when each field it sets equals the record's.
Matches(t, m) ==
    /\ t.account = "" \/ t.account = m.account
    /\ t.channel = "" \/ t.channel = m.channel
    /\ t.nick = "" \/ t.nick = m.nick

\* The loop of Plugger.Target from index i on: the first match, 0 for nil.
RECURSIVE TargetFrom(_, _, _)
TargetFrom(ts, m, i) ==
    IF i > Len(ts) THEN 0
    ELSE IF Matches(ts[i], m) THEN i
    ELSE TargetFrom(ts, m, i + 1)

\* A search that keeps the last match.
PluggerTargetLast(ts, m) ==
    IF \E i \in 1..Len(ts) : Matches(ts[i], m)
    THEN CHOOSE i \in 1..Len(ts) :
            Matches(ts[i], m) /\ \A j \in (i + 1)..Len(ts) : ~Matches(ts[j], m)
    ELSE 0

\* Plugger.Target(msg)
PluggerTarget(ts, m) == TargetFrom(ts, m, 1)

\* Everything but the targets.
TargetFrame ==
    /\ UNCHANGED <<now, accVars, ticks, edits, starts, incomcol, pluginsCol, tomb, plugins,
                   loopVars, tailVars, histVars, cfgVars, synced, mismatched>>
    /\ UNCHANGED <<life, ref>>

\* CanSend is asked of every target.
AskCanSend ==
    /\ TargetFrame
    /\ tstep = "in"
    /\ io' = [io EXCEPT !.tstep = "sent", !.tsend = [i \in 1..Len(tgts) |-> CanSend(tgts[i])]]

\* The loop's test for one plugin: the record is skipped if the plugin is
\* past it or Target answers nil.
DispatchTarget ==
    /\ TargetFrame
    /\ tstep = "sent"
    /\ io' = [io EXCEPT !.tstep = "out",
                        !.tres = PluggerTarget(tgts, tmsg),
                        !.thanded = ~(tlast >= tmsg.id \/ PluggerTarget(tgts, tmsg) = 0)]

TargetInit ==
    /\ InitState
    /\ ref = QuietRef(TRUE)
    /\ configPlugins = NilPlugins
    /\ registeredPlugins = {pluginKey(p) : p \in PluginNames}
    /\ \E ts \in TargetLists : \E m \in TargetRecords : \E l \in {RecordId - 1, RecordId} :
          io = [tgts |-> ts, tmsg |-> m, tlast |-> l, tstep |-> "in", tres |-> 0,
                tsend |-> <<>>, thanded |-> FALSE]

TargetNext ==
    \/ AskCanSend
    \/ DispatchTarget

TargetSpec == TargetInit /\ [][TargetNext]_vars

\* ---- pluginState.handle ----------------------------------------------------

\* The handler interfaces a plugin may implement.
Capabilities == {"MessageHandler", "OutgoingHandler", "CommandHandler"}

\* What schema.CommandName(msg.BotText) may answer.
CommandNames == {"", "echo", "run"}

\* The command lists a plugin's spec may hold.
Schemas == {{}, {"echo"}}

\* A record with what the loop and the schema know of it: the sender's
\* nick, the command name, the plugin's interfaces, its commands, and
\* whether cmdSchema.Parse accepts the text.
HandleInputs ==
    [asNick : {"", "nick"}, cmdName : CommandNames, caps : SUBSET Capabilities,
     commands : Schemas, parses : BOOLEAN]

Call(fn) == [fn |-> fn, msg |-> RecordId]

\* pluginState.handleMessage
stateHandleMessage(in) ==
    IF "MessageHandler" \in in.caps THEN <<Call("HandleMessage")>> ELSE <<>>

\* pluginState.handleOutgoing
stateHandleOutgoing(in) ==
    IF "OutgoingHandler" \in in.caps THEN <<Call("HandleOutgoing")>> ELSE <<>>

\* handleCommand that goes on to the handler when Parse fails.
handleCommandDespiteError(in) ==
    IF in.cmdName = "" THEN <<>>
    ELSE IF "CommandHandler" \notin in.caps THEN <<>>
    ELSE IF in.cmdName \notin in.commands THEN <<>>
    ELSE IF ~in.parses THEN <<Call("Sendf"), Call("HandleCommand")>>
    ELSE <<Call("HandleCommand")>>

\* pluginState.handleCommand
handleCommand(in) ==
    IF in.cmdName = "" THEN <<>>
    ELSE IF "CommandHandler" \notin in.caps THEN <<>>
    ELSE IF in.cmdName \notin in.commands THEN <<>>
    ELSE IF ~in.parses THEN <<Call("Sendf")>>
    ELSE <<Call("HandleCommand")>>

\* handle that takes every record for an incoming one.
handleIncomingOnly(in) == handleCommand(in) \o stateHandleMessage(in)

\* pluginState.handle
handle(in) ==
    IF in.asNick = ""
    THEN stateHandleOutgoing(in)
    ELSE handleCommand(in) \o stateHandleMessage(in)

\* Everything but the handling of one record.
HandleFrame ==
    /\ UNCHANGED <<now, accVars, ticks, edits, starts, incomcol, pluginsCol, tomb, plugins,
                   loopVars, tailVars, histVars, cfgVars, synced, mismatched>>
    /\ UNCHANGED <<life, ref>>

\* The loop's body for one plugin whose target matches: a record the plugin
\* is past is skipped, another sets LastId and is handled.
HandleRecord ==
    /\ HandleFrame
    /\ hstep = "in"
    /\ IF hlastid >= RecordId
       THEN io' = [io EXCEPT !.hstep = "out"]
       ELSE io' = [io EXCEPT !.hstep = "handled", !.hlastid = RecordId, !.hcalls = handle(hin)]

\* plugins.UpdateId(name, {$set: {lastid: msg.Id}}); an error is logged.
HandlePersist(ok) ==
    /\ HandleFrame
    /\ hstep = "handled"
    /\ io' = [io EXCEPT !.hstep = "out", !.hstored = IF ok THEN RecordId ELSE hstored]

HandleInit ==
    /\ InitState
    /\ ref = QuietRef(TRUE)
    /\ configPlugins = NilPlugins
    /\ registeredPlugins = {pluginKey(p) : p \in PluginNames}
    /\ \E in \in HandleInputs : \E l \in {RecordId - 1, RecordId} :
          io = [hin |-> in, hstep |-> "in", hcalls |-> <<>>, hlastid |-> l, hstored |-> 0]

HandleNext ==
    \/ HandleRecord
    \/ \E ok \in BOOLEAN : HandlePersist(ok)

HandleSpec == HandleInit /\ [][HandleNext]_vars

\* ---- Stop, Refresh and the requests of the loop ------------------------------

\* m.config.Plugins != nil && len(m.config.Plugins) == 0
emptyCfg == ~configPlugins.nil /\ Len(configPlugins.names) = 0
\* m.tomb: "alive" or "dying"
mtomb == io.mtomb
\* the reason m.tomb was killed with: "" while it is alive
mreason == io.mreason
\* the loop goroutine: "start", "waitDying", "pass", "rollback", "select",
\* "die", "returned"
mloop == io.mloop
\* the pass is the one of a refresh request: close(req.done) follows it
serving == io.serving
\* the tail goroutine: "none", "running", "returned"
mtail == io.mtail
\* m.plugins holds a plugin
prun == io.prun
\* the goroutine of die is inside the plugin's Stop
pstopping == io.pstopping
\* calls of plugin.Stop so far
nstops == io.nstops
\* the calls of pluginManager.Stop in the order they are made: where each
\* is ("idle", "sending", "waiting", "returned"), what it returned, and
\* whether it was made after the first call had returned
scall == io.scall
\* the call of pluginManager.Refresh: "idle", "sending", "accepted",
\* "closed" (req.done is closed), "returned"
rcall == io.rcall
\* calls of m.session.Close
closes == io.closes

StopCalls == 1..MaxStopCalls

\* Everything but io.
OwnFrame ==
    /\ UNCHANGED <<now, accVars, ticks, edits, starts, incomcol, pluginsCol, tomb, plugins,
                   loopVars, tailVars, histVars, cfgVars, synced, mismatched>>
    /\ UNCHANGED <<life, ref>>

\* loop: with an empty list it only waits for the tomb; otherwise it starts
\* the tail and runs the first pass.
LoopBegins ==
    /\ OwnFrame
    /\ mloop = "start"
    /\ IF emptyCfg
       THEN io' = [io EXCEPT !.mloop = "waitDying"]
       ELSE io' = [io EXCEPT !.mloop = "pass", !.mtail = "running"]

\* What the end of handleRefresh leaves: the loop at its select, and
\* req.done closed if the pass was the one of a request.
PassDone ==
    [io EXCEPT !.mloop = "select",
               !.serving = FALSE,
               !.rcall = IF serving THEN "closed" ELSE rcall]

\* handleRefresh: a pass that starts the plugin goes on to the send on
\* m.rollback, any other is over.
PassRuns(st) ==
    /\ OwnFrame
    /\ mloop = "pass"
    /\ IF st /\ ~prun
       THEN io' = [io EXCEPT !.prun = TRUE, !.mloop = "rollback"]
       ELSE io' = PassDone

\* The head of die: one goroutine per plugin calls its Stop.
DieBegins(s) ==
    [s EXCEPT !.mloop = "die",
              !.pstopping = s.prun,
              !.nstops = IF s.prun THEN s.nstops + 1 ELSE s.nstops]

\* The first call of Stop has returned.
FirstStopReturned == scall[1].pc = "returned"

\* Stop: if !m.tomb.Alive() { return m.tomb.Err() }
StopEnters(k) ==
    /\ OwnFrame
    /\ scall[k].pc = "idle"
    /\ IF k = 1 THEN TRUE ELSE scall[k - 1].pc # "idle"
    /\ IF mtomb # "alive"
       THEN io' = [io EXCEPT !.scall[k] = [pc |-> "returned", result |-> mreason,
                                          seq |-> FirstStopReturned]]
       ELSE io' = [io EXCEPT !.scall[k].pc = "sending",
                             !.scall[k].seq = FirstStopReturned]

\* case m.requests <- pluginRequestStop{}: the loop receives it, returns
\* nil, and its deferred die begins.
StopSent(k) ==
    /\ OwnFrame
    /\ scall[k].pc = "sending"
    /\ mloop = "select"
    /\ io' = DieBegins([io EXCEPT !.scall[k].pc = "waiting"])

\* case <-m.tomb.Dying() of Stop
StopSeesDying(k) ==
    /\ OwnFrame
    /\ scall[k].pc = "sending"
    /\ mtomb # "alive"
    /\ io' = [io EXCEPT !.scall[k].pc = "waiting"]

\* Every goroutine of the tomb has returned: m.tomb.Wait() returns.
TombDead == mtomb # "alive" /\ mloop = "returned" /\ mtail # "running"

\* err := m.tomb.Wait(); m.session.Close(); errStop is returned as nil
StopWaited(k) ==
    /\ OwnFrame
    /\ scall[k].pc = "waiting"
    /\ TombDead
    /\ io' = [io EXCEPT !.scall[k].pc = "returned",
                        !.scall[k].result = IF mreason # "errStop" THEN mreason ELSE "nil",
                        !.closes = closes + 1]

\* The loop goroutine leaves a wait. In refreshPlugins:
\* select { case m.rollback <- rollbackId: case <-m.tomb.Dying(): return },
\* the tail being the receiver of m.rollback. With an empty list:
\* <-m.tomb.Dying(); return nil, and the deferred die begins.
LoopUnblocks ==
    /\ OwnFrame
    /\ mloop \in {"rollback", "waitDying"}
    /\ (mtomb # "alive" \/ (mloop = "rollback" /\ mtail = "running"))
    /\ io' = IF mloop = "waitDying" THEN DieBegins(io) ELSE PassDone

\* The plugin's Stop returns: wg.Done()
PluginStopped ==
    /\ OwnFrame
    /\ pstopping
    /\ io' = [io EXCEPT !.pstopping = FALSE]

\* die: wg.Wait(), m.tomb.Kill(errStop); the loop goroutine is over.
DieKills ==
    /\ OwnFrame
    /\ mloop = "die"
    /\ ~pstopping
    /\ io' = [io EXCEPT !.mloop = "returned",
                        !.mtomb = "dying",
                        !.mreason = IF mreason = "" THEN "errStop" ELSE mreason]

\* The tail returns once the tomb is dying.
TailReturns ==
    /\ OwnFrame
    /\ mtail = "running"
    /\ mtomb # "alive"
    /\ io' = [io EXCEPT !.mtail = "returned"]

\* Refresh is called: the caller is at its select.
RefreshEnters ==
    /\ OwnFrame
    /\ rcall = "idle"
    /\ io' = [io EXCEPT !.rcall = "sending"]

\* case m.requests <- req: the loop receives it and runs handleRefresh.
RefreshSent ==
    /\ OwnFrame
    /\ rcall = "sending"
    /\ mloop = "select"
    /\ io' = [io EXCEPT !.rcall = "accepted", !.serving = TRUE, !.mloop = "pass"]

\* case <-m.tomb.Dying() of Refresh
RefreshSeesDying ==
    /\ OwnFrame
    /\ rcall = "sending"
    /\ mtomb # "alive"
    /\ io' = [io EXCEPT !.rcall = "returned"]

\* <-req.done
RefreshDone ==
    /\ OwnFrame
    /\ rcall = "closed"
    /\ io' = [io EXCEPT !.rcall = "returned"]

\* startPluginManager has returned: the loop goroutine is started, no Stop
\* and no Refresh is called yet.
StopInit ==
    /\ InitState
    /\ ref = QuietRef(TRUE)
    /\ configPlugins \in {NilPlugins, ListedPlugins(<<>>)}
    /\ registeredPlugins = {pluginKey(p) : p \in PluginNames}
    /\    io = [mtomb |-> "alive", mreason |-> "", mloop |-> "start",
                serving |-> FALSE, mtail |-> "none", prun |-> FALSE, pstopping |-> FALSE,
                nstops |-> 0, scall |-> [k \in StopCalls |-> [pc |-> "idle", result |-> "", seq |-> FALSE]],
                rcall |-> "idle", closes |-> 0]

\* The steps the goroutines take on their own once they can.
StopProgress ==
    \/ LoopBegins
    \/ \E st \in BOOLEAN : PassRuns(st)
    \/ LoopUnblocks
    \/ \E k \in StopCalls : StopSent(k)
    \/ \E k \in StopCalls : StopSeesDying(k)
    \/ \E k \in StopCalls : StopWaited(k)
    \/ PluginStopped
    \/ DieKills
    \/ TailReturns
    \/ RefreshSent
    \/ RefreshSeesDying
    \/ RefreshDone

StopNext ==
    \/ \E k \in StopCalls : StopEnters(k)
    \/ RefreshEnters
    \/ StopProgress

\* The scheduler runs a goroutine that can take a step, and a plugin's Stop
\* returns.
StopSpec == StopInit /\ [][StopNext]_vars /\ WF_vars(StopProgress)

\* ---- the directory connections ------------------------------------------------

LdapNames == {"l1", "l2"}

\* What the ldap collection may hold under a name: no document, a document
\* with one of two contents, or one that raw.Unmarshal rejects.
LdapDocs == {"none", "a", "b", "bad"}

\* the ldap collection
ldcol == io.ldcol
\* edits of the ldap collection so far
ldedits == io.ldedits
\* m.ldaps: per name the raw document and the managed connection of its
\* state; connection 0 stands for no entry
ldstates == io.ldstates
\* m.ldapConns: per name the managed connection; 0 stands for no entry
ldtable == io.ldtable
\* ldap.DialManaged calls so far: the connections are numbered by them
lddials == io.lddials
\* the managed connections Close was called on
ldclosed == io.ldclosed
\* refreshLdaps: where it is ("idle", "docs", "removal", "return"), the names
\* the cursor has still to come to, infos, found, known and changed
ldpass == io.ldpass
\* die: "no", "closing", "done"
lddie == io.lddie
\* m.tomb as ldapConn sees it
ldalive == io.ldalive
\* the plugin: "running", "stopping" (inside its Stop), "stopped"
ldplugin == io.ldplugin
\* the last call of ldapConn: the name asked for, whether m.ldapConns had
\* it, the managed connection a connection was obtained from (0: the
\* call returned "not found"), whether Close had been called on that managed
\* connection, whether the call was made between two passes for a name
\* m.ldaps has no state of, and whether die had cleared the table
look == io.look
\* ldapConn has panicked
ldpanic == io.ldpanic

NoLdap == [raw |-> "none", conn |-> 0]
NoLook == [name |-> "", intable |-> FALSE, conn |-> 0, stale |-> FALSE, unknown |-> FALSE,
           cleared |-> FALSE]
IdlePass == [pc |-> "idle", left |-> {}, infos |-> {}, found |-> 0, known |-> 0,
             changed |-> FALSE]

\* The names m.ldaps has an entry for.
LdapsKnown(s) == {n \in LdapNames : s[n].conn # 0}

\* The operator inserts, changes or removes a document of the ldap collection.
LdapEdit(n, d) ==
    /\ OwnFrame
    /\ ldedits < MaxLdapEdits
    /\ d # ldcol[n]
    /\ io' = [io EXCEPT !.ldcol[n] = d, !.ldedits = ldedits + 1]

\* refreshLdaps up to its query: changed := false, known = len(m.ldaps), and
\* the cursor over the documents of the collection.
LdapsBegin ==
    /\ OwnFrame
    /\ ldpass.pc = "idle"
    /\ lddie = "no"
    /\ io' = [io EXCEPT !.ldpass = [IdlePass EXCEPT !.pc = "docs",
                                      !.left = {n \in LdapNames : ldcol[n] # "none"},
                                      !.known = Cardinality(LdapsKnown(ldstates))]]

\* One turn of for iter.Next(&raw) on the document named n: skipped if it
\* cannot be unmarshalled or is the one of the state; else the state's
\* connection, if there is one, is closed and a new state is dialled.
LdapsDocument(n) ==
    /\ OwnFrame
    /\ ldpass.pc = "docs"
    /\ n \in ldpass.left
    /\ LET raw == ldcol[n]
           known == ldstates[n].conn # 0
           found == IF known THEN ldpass.found + 1 ELSE ldpass.found
       IN  IF raw \in {"none", "bad"}
           THEN io' = [io EXCEPT !.ldpass.left = ldpass.left \ {n}]
           ELSE IF known /\ ldstates[n].raw = raw
           THEN io' = [io EXCEPT !.ldpass.left = ldpass.left \ {n},
                                 !.ldpass.infos = ldpass.infos \cup {n},
                                 !.ldpass.found = found]
           ELSE io' = [io EXCEPT !.ldpass.left = ldpass.left \ {n},
                                 !.ldpass.infos = ldpass.infos \cup {n},
                                 !.ldpass.found = found,
                                 !.ldpass.changed = TRUE,
                                 !.ldclosed = IF known THEN ldclosed \cup {ldstates[n].conn}
                                              ELSE ldclosed,
                                 !.lddials = lddials + 1,
                                 !.ldstates[n] = [raw |-> raw, conn |-> lddials + 1]]

\* The deferred function of refreshLdaps: if changed, m.ldapConns is made
\* anew from m.ldaps under the mutex.
LdapsSwapped(s) ==
    [s EXCEPT !.ldpass = IdlePass,
              !.ldtable = IF s.ldpass.changed
                          THEN [n \in LdapNames |-> s.ldstates[n].conn]
                          ELSE s.ldtable]

\* A failed read that leaves refreshLdaps with the table as it was.
LdapsIterFailsUnswapped ==
    /\ OwnFrame
    /\ ldpass.pc = "docs"
    /\ io' = [io EXCEPT !.ldpass = IdlePass]

\* if iter.Err() != nil { return }: the deferred function runs.
LdapsIterFails ==
    /\ OwnFrame
    /\ ldpass.pc = "docs"
    /\ io' = LdapsSwapped(io)

\* The cursor is exhausted: if known != found the removal loop follows.
LdapsIterEnds ==
    /\ OwnFrame
    /\ ldpass.pc = "docs"
    /\ ldpass.left = {}
    /\ IF ldpass.known # ldpass.found
       THEN io' = [io EXCEPT !.ldpass.pc = "removal"]
       ELSE io' = LdapsSwapped(io)

\* One turn of the removal loop on a state whose name is not in infos:
\* its connection is closed and the state deleted.
LdapsRemove(n) ==
    /\ OwnFrame
    /\ ldpass.pc = "removal"
    /\ n \in LdapsKnown(ldstates) \ ldpass.infos
    /\ io' = [io EXCEPT !.ldclosed = ldclosed \cup {ldstates[n].conn},
                        !.ldstates[n] = NoLdap,
                        !.ldpass.changed = TRUE]

\* The removal loop is over: refreshLdaps returns through its deferred
\* function.
LdapsReturn ==
    /\ OwnFrame
    /\ ldpass.pc = "removal"
    /\ LdapsKnown(ldstates) \subseteq ldpass.infos
    /\ io' = LdapsSwapped(io)

\* die up to its second loop: the plugin's Stop is called in a goroutine
\* and m.ldapConns is set to nil under the mutex.
LdapDieBegins ==
    /\ OwnFrame
    /\ ldpass.pc = "idle"
    /\ lddie = "no"
    /\ io' = [io EXCEPT !.lddie = "closing",
                        !.ldplugin = "stopping",
                        !.ldtable = [n \in LdapNames |-> 0]]

\* A goroutine of die calls state.conn.Close.
LdapDieCloses(n) ==
    /\ OwnFrame
    /\ lddie = "closing"
    /\ ldstates[n].conn # 0
    /\ ldstates[n].conn \notin ldclosed
    /\ io' = [io EXCEPT !.ldclosed = ldclosed \cup {ldstates[n].conn}]

\* The plugin's Stop returns.
LdapPluginStopped ==
    /\ OwnFrame
    /\ ldplugin = "stopping"
    /\ io' = [io EXCEPT !.ldplugin = "stopped"]

\* wg.Wait(); m.tomb.Kill(errStop)
LdapDieKills ==
    /\ OwnFrame
    /\ lddie = "closing"
    /\ ldplugin = "stopped"
    /\ \A n \in LdapsKnown(ldstates) : ldstates[n].conn \in ldclosed
    /\ io' = [io EXCEPT !.lddie = "done", !.ldalive = FALSE]

\* ldapConn(name), called by the plugin before its Stop has returned.
\* given is whether mconn.Conn() hands out a connection.
ldapConn(n, given) ==
    /\ OwnFrame
    /\ ldplugin # "stopped"
    /\ IF ~ldalive
       THEN io' = [io EXCEPT !.ldpanic = TRUE]
       ELSE LET mconn == ldtable[n]
                conn == IF mconn # 0 /\ given THEN mconn ELSE 0
            IN  io' = [io EXCEPT !.look = [name |-> n,
                                           intable |-> mconn # 0,
                                           conn |-> conn,
                                           stale |-> conn \in ldclosed,
                                           unknown |-> /\ ldpass.pc = "idle"
                                                       /\ ldstates[n].conn = 0,
                                           cleared |-> lddie # "no"]]

\* startPluginManager has returned with an empty ldap collection, before the
\* first pass of the loop.
LdapInit ==
    /\ InitState
    /\ ref = QuietRef(TRUE)
    /\ configPlugins = NilPlugins
    /\ registeredPlugins = {pluginKey(p) : p \in PluginNames}
    /\ io = [ldcol |-> [n \in LdapNames |-> "none"], ldedits |-> 0,
             ldstates |-> [n \in LdapNames |-> NoLdap],
             ldtable |-> [n \in LdapNames |-> 0],
             lddials |-> 0, ldclosed |-> {}, ldpass |-> IdlePass, lddie |-> "no",
             ldalive |-> TRUE, ldplugin |-> "running", look |-> NoLook, ldpanic |-> FALSE]

LdapNext ==
    \/ \E n \in LdapNames : \E d \in LdapDocs : LdapEdit(n, d)
    \/ LdapsBegin
    \/ \E n \in LdapNames : LdapsDocument(n)
    \/ LdapsIterFails
    \/ LdapsIterEnds
    \/ \E n \in LdapNames : LdapsRemove(n)
    \/ LdapsReturn
    \/ LdapDieBegins
    \/ \E n \in LdapNames : LdapDieCloses(n)
    \/ LdapPluginStopped
    \/ LdapDieKills
    \/ \E n \in LdapNames : \E given \in BOOLEAN : ldapConn(n, given)

LdapSpec == LdapInit /\ [][LdapNext]_vars

\* ---- properties -----------------------------------------------------------

WakeIds == {incomcol[i].id : i \in {j \in 1..Len(incomcol) : incomcol[j].command = cmdPong}}
Ids(seq) == {seq[i] : i \in 1..Len(seq)}
Records == {incomcol[i] : i \in 1..Len(incomcol)}

\* The tail takes the request the loop is sending on m.rollback.
ReceivesRollback == lpc = "rollback" /\ lpc' = "select"

\* The tail hands msg to the loop.
Delivers == tpc = "deliver" /\ tpc' = "next"

\* C2: a rollback request R received by the tail, at the head of the loop or
\* while it is blocked delivering, leaves the position at min(R, position
\* before): it never raises it.
C2_RollbackIsMin ==
    [][ReceivesRollback => lastId' = Min(rollbackId, lastId) /\ lastId' <= lastId]_vars

\* C2 witness: a request older than the position has just been taken.
C2_Witness == got.id > 0 /\ got.id < got.before /\ lastId = got.id

\* C3: every record the tail hands to the loop is the first stored record
\* above the tail position: ids come in store order, above the position,
\* none skipped; only a rollback makes ids repeat.
C3_DeliversNextInOrder ==
    [][Delivers => /\ msg.id > lastId
                   /\ HasNext(lastId)
                   /\ msg = NextRecord(lastId)
                   /\ lastId' = msg.id]_vars

\* C3 witness: after a rollback the loop is handed again a record that a
\* running plugin has already handled.
C3_Witness ==
    /\ lpc = "dispatch" /\ lmsg.id = lastId
    /\ \E p \in todo : lmsg.id \in Ids(handled[p])

\* C5: a request R taken while the tail is blocked delivering r: when R is
\* older than the position, r is dropped undelivered, the iterator is closed
\* and the tail restarts from R at the head of the loop, without the backoff
\* sleep; otherwise position, iterator and pending record stay as they are.
C5_RollbackWhileDelivering ==
    [][(tpc = "deliver" /\ ReceivesRollback) =>
          /\ UNCHANGED <<lmsg, todo, plugins, handled>>
          /\ IF rollbackId < lastId
             THEN lastId' = rollbackId /\ msg' = NoMsg /\ iterPos' = 0 /\ tpc' = "top"
             ELSE UNCHANGED <<lastId, iterPos, msg, tpc>>]_vars

\* C5 witness: both outcomes, seen right after the request was taken.
C5_Witness ==
    /\ got.at = "deliver"
    /\ got.id >= got.before
    /\ tpc = "deliver" /\ msg.id > lastId

C5_WitnessOlder ==
    /\ got.at = "deliver"
    /\ got.id < got.before
    /\ tpc = "top" /\ lastId = got.id

\* C7: no wake record reaches a plugin: the loop never fans one out, no
\* handler gets one and no persisted lastid is the id of one.
C7_WakeNeverDispatched ==
    /\ lmsg.command # cmdPong
    /\ \A p \in PluginNames :
          /\ Ids(handled[p]) \cap WakeIds = {}
          /\ pluginsCol[p].lastid \notin WakeIds

\* C7 witness: the loop has just taken a wake record while plugins whose
\* target is any account were running.
C7_Witness ==
    /\ tpc = "next" /\ lpc = "select" /\ got = NoRequest
    /\ lastId \in WakeIds
    /\ Running # {}

\* C8: one running instance gets each record id at most once, and only
\* records its target matches; ids it gets are increasing.
C8_AtMostOncePerInstance ==
    \A p \in PluginNames :
        /\ \A i, j \in 1..Len(handled[p]) : i < j => handled[p][i] < handled[p][j]
        /\ \A r \in Records : r.id \in Ids(handled[p]) => Target(p, r)
        /\ \A i \in 1..Len(handled[p]) : handled[p][i] <= plugins[p].lastid

\* C8 witness: a rollback has made the tail hand over again a record that a
\* plugin still to be visited has already handled.
C8_Witness ==
    /\ lpc = "dispatch"
    /\ \E p \in todo : lmsg.id \in Ids(handled[p]) /\ Target(p, lmsg)
    /\ \E q \in Running : lmsg.id \notin Ids(handled[q]) /\ plugins[q].lastid < lmsg.id

\* C9: the loop takes a record from the tail only when the fan-out of the
\* previous one is complete, the new record is offered to every running
\* plugin, and the running set does not change during a fan-out.
C9_FanOutOrder ==
    [][/\ Delivers => todo = {} /\ lmsg = NoMsg /\ (lmsg' # NoMsg => todo' = Running)
       /\ (lpc \in {"dispatch", "persist"} /\ lpc' # "down") =>
             /\ Running' = Running
             /\ todo' \subseteq todo
             /\ \A p \in Running \ todo' :
                   p # cur' => plugins'[p].lastid >= lmsg.id \/ ~Target(p, lmsg)
             /\ (lmsg' # lmsg => lmsg' = NoMsg /\ todo' = {})]_vars

\* C9 witness: two plugins run, one has been visited for the record and the
\* next record is already waiting in the tail.
C9_Witness ==
    /\ lpc = "dispatch"
    /\ Cardinality(Running) = 2 /\ Cardinality(todo) = 1
    /\ tpc = "deliver" /\ msg.id > lmsg.id

\* The plugin is (re)started by this step of refreshPlugins.
StartedNow(p) ==
    /\ lpc \in {"init", "select"}
    /\ plugins'[p].running
    /\ plugins'[p] # plugins[p]

\* C10 as stated: over dispatches, failed persists, refreshes and restarts
\* the in-memory position of a plugin name never goes down, so a restarted
\* instance begins no lower than the instance it replaces had reached.
C10_PositionNeverLower ==
    [][\A p \in PluginNames :
          (plugins[p].running /\ plugins'[p].running)
             => plugins'[p].lastid >= plugins[p].lastid]_vars

\* C10 amended: a dispatch only raises the position of the running
\* instance, the persisted lastid of a stored document never decreases, and
\* a (re)started instance begins no lower than the persisted lastid.
C10_PositionMonotonePersisted ==
    [][\A p \in PluginNames :
          /\ (plugins[p].running /\ plugins'[p].running /\ ~StartedNow(p))
                => plugins'[p].lastid >= plugins[p].lastid
          /\ (pluginsCol[p].present /\ pluginsCol'[p].present)
                => pluginsCol'[p].lastid >= pluginsCol[p].lastid
          /\ StartedNow(p)
                => plugins'[p].lastid >= pluginsCol[p].lastid]_vars

\* C10 witness: an instance restarted from a persisted lastid that an
\* earlier instance wrote, beginning at that lastid.
C10_Witness ==
    \E p \in Running :
        /\ handled[p] = <<>>
        /\ pluginsCol[p].lastid > 0
        /\ plugins[p].lastid = pluginsCol[p].lastid
        /\ plugins[p].lastid > NewObjectIdWithTime(now - rollbackLimit)

\* ---- at-least-once inbound (C1) ------------------------------------------

\* The position the tail reads from next: its own (the one it would compute
\* now, if it has not started yet), lowered by the request the loop is
\* sending, if any.
TailPosition ==
    LET own == IF tpc = "start" THEN NewObjectIdWithTime(now - rollbackLimit) ELSE lastId
    IN  IF lpc = "rollback" THEN Min(rollbackId, own) ELSE own

\* Record r is still to come for plugin p: the tail will read it, or the
\* loop is fanning it out and has not visited p yet.
StillToCome(p, r) ==
    \/ r.id > TailPosition
    \/ lpc \in {"dispatch", "persist"} /\ lmsg.id = r.id /\ p \in todo \ {cur}

C6_RollbackSendCompletes == (lpc = "rollback") ~> (lpc # "rollback")

\* C6 witness: the tail, woken from its read by the wake record, took the
\* request while it was blocked delivering that record.
C6_Witness ==
    /\ got.at = "deliver"
    /\ tpc = "deliver"
    /\ msg.command = cmdPong
    /\ lpc = "select"

\* The account tail hands amsg to the client.
AccDelivers == apc = "deliver" /\ apc' = "next"

\* handleRefresh starts a client and a new tail for it.
AccTailStarts == client # "up" /\ client' = "up"

\* The goroutine of the plugin tail is past its first statement and goes on.
TailRuns == tpc \notin {"none", "start"} /\ tpc' \notin {"none", "start"}

\* C4 as stated: in both tails the position is set to a record's id only
\* by the successful send of that record, and while a record is pending
\* and is not sent (the iterator fails, a rollback is taken, the dying
\* signal fires) the position keeps its value.
C4_PositionKeptWhilePending ==
    [][ /\ (TailRuns /\ lastId' # lastId /\ ~ReceivesRollback) =>
              (Delivers /\ lastId' = msg.id)
        /\ (tpc = "deliver" /\ TailRuns /\ ~Delivers) => lastId' = lastId
        /\ (~AccTailStarts /\ alastId' # alastId) => (AccDelivers /\ alastId' = amsg.id)
        /\ (apc = "deliver" /\ ~AccTailStarts /\ ~AccDelivers) => alastId' = alastId
      ]_vars

\* C4: in both tails the position is raised only by the successful send of
\* a record, to that record's id; the plugin tail's position is otherwise
\* changed only by a rollback request, which lowers it to the requested id.
\* A record that is pending and is not sent stays above the position, and a
\* reopened read starts at the position, so it yields that record again.
C4_PositionAdvancedOnlyBySend ==
    [][ /\ (TailRuns /\ lastId' # lastId) =>
              \/ Delivers /\ lastId' = msg.id
              \/ ReceivesRollback /\ lastId' = rollbackId /\ lastId' < lastId
        /\ (tpc = "deliver" /\ TailRuns /\ ~Delivers) => msg.id > lastId'
        /\ (tpc = "top" /\ tpc' = "next") => iterPos' = lastId'
        /\ (~AccTailStarts /\ alastId' # alastId) => (AccDelivers /\ alastId' = amsg.id)
        /\ (apc = "deliver" /\ ~AccTailStarts /\ ~AccDelivers) =>
              (alastId' = alastId /\ amsg.id > alastId')
        /\ (apc = "top" /\ apc' = "next") => aiterPos' = alastId'
      ]_vars

\* The client of the account died while the tail held its second record:
\* the tail returned with the position at the first one.
C4_Witness ==
    /\ apc = "done"
    /\ amsg # NoOut
    /\ alastId # 0
    /\ alastId \in handed
    /\ amsg.id > alastId

\* ---- persisted lastid of a plugin (C11) -----------------------------------

\* C11: the persisted lastid of a plugin is written only by the persist
\* that follows the return of the plugin's handlers for the record, to the
\* id of that record; it is never above the in-memory lastid of the running
\* instance, and a crash between the handlers and the persist leaves it as
\* it was, at the previous record.
C11_PersistAfterHandling ==
    [][\A p \in PluginNames :
          /\ (pluginsCol'[p].present /\ pluginsCol'[p].lastid # pluginsCol[p].lastid) =>
                /\ lpc = "persist" /\ cur = p
                /\ pluginsCol'[p].lastid = lmsg.id
                /\ lmsg.id \in Ids(handled[p])
                /\ plugins[p].lastid = lmsg.id
          /\ (plugins'[p].running /\ pluginsCol'[p].present) =>
                pluginsCol'[p].lastid <= plugins'[p].lastid
          /\ (lpc = "persist" /\ lpc' = "down") => pluginsCol' = pluginsCol
      ]_vars

\* C11 witness: the manager crashed between the handlers and the persist
\* of a second record: the persisted lastid is still the first one, which
\* the restarted plugin handles from.
C11_Witness ==
    \E p \in Running :
        /\ starts = 2
        /\ pluginsCol[p].lastid > 0
        /\ \E r \in Records : r.id > pluginsCol[p].lastid /\ r.id \in Ids(handled[p])
        /\ lpc = "persist" /\ cur = p

\* ---- outbound delivery (C12) ----------------------------------------------

\* The records of account "a" above pos, in store order.
OutQueue(pos) ==
    SelectSeq(outgoing, LAMBDA r : r.id > pos /\ r.account = "a")

\* C12: a tail started for an account begins at the persisted lastid, and
\* the records it hands to the client are, in store order and one each, the
\* records of the account above that lastid: a record handed over before
\* but not confirmed is handed over again before any newer one, and no
\* record at or below the persisted lastid is handed over again.
C12_ResendFromConfirmed ==
    [][ /\ AccTailStarts => (astartId' = accountsCol.lastid /\ asent' = <<>>)
        /\ Len(asent') <= Len(OutQueue(astartId'))
        /\ \A i \in 1..Len(asent') : asent'[i] = OutQueue(astartId')[i].id
      ]_vars

\* C12 witness: after a restart of the manager the tail began at the
\* confirmed record and has handed over again, first, the record whose probe
\* an earlier run sent without seeing its echo; a newer record waits.
C12_Witness ==
    /\ astarts = 2
    /\ astartId > 0 /\ astartId = accountsCol.lastid
    /\ Len(asent) = 1
    /\ asent[1] \in probed /\ cpend = asent[1]
    /\ Len(OutQueue(asent[1])) > 0

\* ---- the confirmed position of an account (C13, C14) ----------------------

\* The loop of the account manager has just received a message.
AccReceives == amIn' # NoIn

\* C13: the persisted lastid of the account changes only when the loop
\* receives a pong whose text is "sent:" and an id, and becomes that id;
\* handing a record to the client or sending its probe does not change it;
\* no pong is stored in the incoming log, and a pong without "sent:"
\* changes nothing.
C13_ConfirmedOnlyBySentPong ==
    [][ /\ (accountsCol'.lastid # accountsCol.lastid /\ aedits' = aedits) =>
              /\ AccReceives
              /\ amIn'.cmd = cmdPong /\ HasPrefixSent(amIn'.text)
              /\ amIn'.account = "a"
              /\ accountsCol'.lastid = ObjectIdHex(amIn'.text)
        /\ (AccDelivers \/ cpend' # cpend \/ probed' # probed) => accountsCol' = accountsCol
        /\ (AccReceives /\ amIn'.cmd = cmdPong) =>
              /\ incomcol' = incomcol
              /\ ~HasPrefixSent(amIn'.text) => (accountsCol' = accountsCol /\ amtomb' = amtomb)
      ]_vars

\* C13 witness: with one record confirmed and the probe of a newer one
\* sent, the loop has just received a pong of the server without "sent:".
C13_Witness ==
    /\ amIn.cmd = cmdPong /\ ~HasPrefixSent(amIn.text)
    /\ accountsCol.present /\ accountsCol.lastid > 0
    /\ \E id \in probed : id > accountsCol.lastid
    /\ amtomb = "alive"

\* C14: the persisted lastid of a stored account document never decreases,
\* in whatever order the echoes of the probes arrive.
C14_ConfirmedNeverDecreases ==
    [][(accountsCol.present /\ accountsCol'.present /\ aedits' = aedits)
          => accountsCol'.lastid >= accountsCol.lastid]_vars

\* ---- sequential outbound delivery (C15) -----------------------------------

\* C15: every record the account tail hands to the client is of the
\* client's account and is the first such record above the tail position,
\* so the hand-overs follow the store order; the client takes it only when
\* it holds no other record, and every record taken before has been
\* followed by its probe.
C15_SequentialPerAccount ==
    [][AccDelivers =>
          /\ amsg.account = "a"
          /\ amsg.id > alastId
          /\ amsg = OutQueue(alastId)[1]
          /\ cpend = 0 /\ cpend' = amsg.id
          /\ Ids(asent) \subseteq probed
          /\ alastId' = amsg.id]_vars

\* C15 witness: the tail holds the next record of the account, past a
\* record of another account, while the client has not yet sent the probe
\* of the record it took.
C15_Witness ==
    /\ apc = "deliver"
    /\ cpend # 0 /\ cpend \notin probed
    /\ amsg.id > cpend
    /\ \E i \in 1..Len(outgoing) :
          outgoing[i].account = "b" /\ outgoing[i].id > cpend /\ outgoing[i].id < amsg.id

\* ---- C16 ------------------------------------------------------------------

\* A step of refreshPlugins that the state shows.
PassStep ==
    /\ lpc \in {"init", "select"} /\ lpc' \in {"select", "rollback"}
    /\ UNCHANGED <<tailVars, pluginsCol, ticks, got, accVars>>
    /\ incomcol' = incomcol \/ incomcol' = WakeUp(incomcol)

\* C16: a reconciliation pass that runs after a pass that fetched the stored
\* configuration, with no edit of the configuration and no client death in
\* between, calls no Stop and no Start, leaves the running set and every
\* position as they are, inserts no wake record and sends no rollback
\* request; this holds for refreshPlugins and for the account manager's
\* handleRefresh.
C16_SecondPassDoesNothing ==
    [][/\ synced => \A p \in PluginNames : Calls(p) = <<>>
       /\ (synced /\ PassStep) =>
              /\ plugins' = plugins
              /\ incomcol' = incomcol
              /\ lpc' = "select" /\ rollbackId' = rollbackId
       /\ asynced => ~AccDrops /\ ~AccStarts
       /\ (asynced /\ asynced') =>
              /\ client' = client
              /\ astartId' = astartId
              /\ asent = <<>> \/ asent' # <<>>
              /\ apc' = "top" => apc \in {"top", "sleep"}]_vars

\* A pass has brought a plugin up, records were dispatched to it since, and
\* the loop is where the next pass starts.
C16_Witness ==
    /\ synced /\ lpc = "select"
    /\ \E p \in Running : handled[p] # <<>>

\* ---- C17 ------------------------------------------------------------------

\* The fetched documents that are enabled and whose key is registered.
Desired == {p \in Infos : pluginOn(p) /\ pluginKey(p) \in registeredPlugins}

\* C17: after a pass of refreshPlugins that fetched the documents, the
\* running names are the fetched names that are enabled and registered; the
\* pass stops a running instance whose document is gone exactly once and
\* removes it, and it does not stop an instance whose document is there
\* and unchanged.
C17_RunningIsDesired ==
    [][/\ synced' => Running' = Desired'
       /\ (PassStep /\ synced') =>
              \A p \in Running :
                 /\ p \notin Infos => Calls(p) = <<"Stop">> /\ ~plugins'[p].running
                 /\ (p \in Infos /\ ~pluginChanged(plugins[p], pluginsCol[p])) =>
                        Calls(p) = <<>> /\ plugins'[p] = plugins[p]]_vars

\* A pass left a plugin running and a stored document out: its name is not
\* enabled or its key is not registered.
C17_Witness ==
    /\ synced /\ Running # {} /\ Infos \ Desired # {}

\* ---- C18 ------------------------------------------------------------------

\* The blobs of the running instance differ from the stored document's.
BlobsDiffer(p) ==
    \/ plugins[p].config # pluginsCol[p].config
    \/ plugins[p].targets # pluginsCol[p].targets

\* The pass meets a running plugin whose stored blobs differ.
MeetsChanged(p) == PassStep /\ synced' /\ p \in Running \cap Seen /\ BlobsDiffer(p)

\* The blobs of a plugin that keeps running change.
BlobsReplaced(p) ==
    /\ plugins[p].running /\ plugins'[p].running
    /\ <<plugins'[p].config, plugins'[p].targets>> # <<plugins[p].config, plugins[p].targets>>

\* C18 as stated: a pass that meets a running plugin whose blobs differ
\* stops it and then starts a new instance with the stored blobs, whose
\* position is the persisted lastid when there is one; blobs change in no
\* other way.
C18_RestartAtPersisted ==
    [][\A p \in PluginNames :
          /\ MeetsChanged(p) =>
                /\ Calls(p) = <<"Stop", "Start">>
                /\ plugins'[p].running
                /\ plugins'[p].config = pluginsCol[p].config
                /\ plugins'[p].targets = pluginsCol[p].targets
                /\ pluginsCol[p].lastid # 0 => plugins'[p].lastid = pluginsCol[p].lastid
          /\ BlobsReplaced(p) => MeetsChanged(p)]_vars

\* C18 amended: the position of the new instance is the persisted lastid,
\* or the rollback limit when the persisted lastid is unset or older.
C18_RestartAtPersistedOrLimit ==
    [][\A p \in PluginNames :
          /\ MeetsChanged(p) =>
                /\ Calls(p) = <<"Stop", "Start">>
                /\ plugins'[p].running
                /\ plugins'[p].config = pluginsCol[p].config
                /\ plugins'[p].targets = pluginsCol[p].targets
                /\ plugins'[p].lastid =
                      Max(pluginsCol[p].lastid, NewObjectIdWithTime(now - rollbackLimit))
          /\ BlobsReplaced(p) => MeetsChanged(p)]_vars

\* A plugin restarted by a pass for a change of its blobs, at the lastid the
\* instance before it persisted.
C18_Witness ==
    /\ starts = 1 /\ synced
    /\ \E p \in Running :
          /\ handled[p] = <<>>
          /\ pluginsCol[p].lastid > 0
          /\ plugins[p].lastid = pluginsCol[p].lastid

\* ---- C19 ------------------------------------------------------------------

\* C19: a pass that starts no plugin inserts no wake record and sends no
\* rollback request; a pass that starts at least one plugin inserts one wake
\* record and sends one request, for the lowest position among the plugins
\* it started.
C19_OneWakeOneRequest ==
    [][(PassStep /\ synced') =>
          IF Started = {}
          THEN incomcol' = incomcol /\ lpc' = "select"
          ELSE /\ incomcol' = WakeUp(incomcol)
               /\ lpc' = "rollback"
               /\ \A p \in Started : rollbackId' <= plugins'[p].lastid
               /\ \E p \in Started : rollbackId' = plugins'[p].lastid]_vars

\* ---- C20 ------------------------------------------------------------------

\* The range loop hands the record to the handlers of p.
HandsTo(p) == lpc = "dispatch" /\ lpc' = "persist" /\ cur' = p

\* The range loop passes p over for the record.
PassesOver(p) ==
    /\ lpc = "dispatch" /\ lpc' \in {"select", "dispatch"}
    /\ p \in todo /\ p \notin todo'

\* C20: a record above the plugin's lastid is handed to the plugin exactly
\* when the target the plugin has at that time matches it, and a record
\* the loop passed over for a plugin name under an earlier target is not
\* handed to that name after its target was changed.
C20_TargetAtDispatchOnly ==
    [][\A p \in PluginNames :
          /\ ((HandsTo(p) \/ PassesOver(p)) /\ plugins[p].lastid < lmsg.id)
                => (HandsTo(p) <=> Target(p, lmsg))
          /\ HandsTo(p) => lmsg.id \notin mismatched[p]]_vars

\* ---- C21 ------------------------------------------------------------------

\* C21: when the loop ends, die starts the Stop of every running plugin and
\* the Close of the LDAP connection before it waits for any of them; the
\* tomb is killed only when all of them have returned, Stop closes the
\* session only after that, and no call a plugin makes from inside its Stop
\* panics.
C21_KillAfterAllStops ==
    [][/\ (lpc = "select" /\ lpc' = "die")
            => /\ Stopping' = Running
               /\ tomb' = "alive"
       /\ (lpc = "die" /\ lpc' = "diewait")
            => /\ Stopping' = Stopping
               /\ ldaps = "open" => ldaps' = "closing"
               /\ tomb' = "alive"
       /\ (tomb = "alive" /\ tomb' = "dying") => AllReturned /\ AllReturned'
       /\ session' < session => tomb = "dying" /\ AllReturned
       /\ ~panicked']_vars

\* Both plugins' Stop and the connection's Close are in progress at once,
\* and a plugin has queued a message from inside its Stop.
C21_Witness ==
    /\ Stopping = PluginNames
    /\ ldaps = "closing"
    /\ tomb = "alive"
    /\ outgoing # <<>>

\* ---- C22 ------------------------------------------------------------------

\* pluginManager.Refresh returns to its caller.
RefreshReturn == rpc # "idle" /\ rpc' = "idle"

\* accountManager.Refresh returns to its caller.
AccRefreshReturn == arpc # "idle" /\ arpc' = "idle"

\* C22: when Refresh returns while its manager is alive, a reconciliation
\* pass that began after the call has run to its end: the request was taken
\* by the loop and no pass is still in progress.
C22_RefreshIsSynchronous ==
    [][/\ (RefreshReturn /\ tomb = "alive")
            => /\ rpc = "accepted"
               /\ pbegan
               /\ lpc \notin {"init", "rollback"}
       /\ (AccRefreshReturn /\ amtomb = "alive")
            => /\ arpc = "closed"
               /\ apbegan]_vars

\* The loop took the request, the pass it ran started a plugin and sent its
\* rollback, and the caller is about to return.
C22_Witness ==
    /\ rpc = "accepted"
    /\ tomb = "alive"
    /\ lpc = "select"
    /\ got.id # 0
    /\ Running # {}

\* ---- C23 ------------------------------------------------------------------

\* A step of the plugin manager's loop that shows a pass ran: the running
\* set or a running instance changes, or the documents were fetched anew.
VisiblePass ==
    /\ lpc = "select" /\ lpc' \in {"select", "rollback"}
    /\ plugins' # plugins \/ (~synced /\ synced')

\* The same for the account manager: the accounts were fetched anew.
AccVisiblePass == amtomb = "alive" /\ ~asynced /\ asynced'

\* C23: with a refresh interval that is not positive no tick ever arrives,
\* so that after the first pass a pass runs only for a Refresh request; with
\* a positive interval every tick the loop takes runs one pass.
C23_PassesOnRequestOrTick ==
    [][/\ ~refreshOn => ~tickc' /\ ~atickc'
       /\ VisiblePass
            => \/ rpc = "sending" /\ rpc' = "accepted"
               \/ refreshOn /\ tickc /\ ~tickc'
       /\ AccVisiblePass
            => \/ arpc = "sending" /\ arpc' = "closed"
               \/ refreshOn /\ atickc /\ ~atickc'
       /\ (tickc /\ ~tickc') => PassStep /\ pbegan'
       /\ (atickc /\ ~atickc') => amtomb = "alive" /\ apbegan']_vars

\* Manual refreshing: the interval is not positive and a pass that ran for a
\* Refresh request started the plugin whose document it found.
C23_Witness ==
    /\ ~refreshOn
    /\ rpc = "accepted"
    /\ Running # {}
    /\ pbegan /\ synced
    /\ edits > 0

\* ---- C24 ------------------------------------------------------------------

\* C24: a refresh asks to join exactly the configured channels that are not
\* confirmed as joined and to part exactly the confirmed channels that are
\* no longer configured, and a refresh that follows another with no
\* confirmation and no edit in between writes the same lines again.
C24_JoinPartReconciled ==
    [][nrefresh' # nrefresh =>
          /\ Requested(wire', "JOIN") = Range(chanCfg) \ joined
          /\ Requested(wire', "PART") = joined \ Range(chanCfg)
          /\ (nrefresh > 0 /\ ~touched) => wire' = wire]_vars

\* #c1 and #c2 were joined and confirmed, the list became #c1, #c3, and the
\* third refresh repeated the unconfirmed JOIN #c3 and PART #c2.
C24_Witness ==
    /\ chanCfg = <<"#c1", "#c3">>
    /\ joined = {"#c1", "#c2"}
    /\ nrefresh = 3
    /\ ~touched
    /\ wire = <<[verb |-> "JOIN", chans |-> <<"#c3">>],
                [verb |-> "PART", chans |-> <<"#c2">>]>>

\* ---- C25 ------------------------------------------------------------------

\* The fields a target sets: account, channel, nick.
Shape(t) == <<t.account # "", t.channel # "", t.nick # "">>

\* C25: CanSend answers true for the targets that set the account and the
\* channel, the account and the nick, or all three, and false for the
\* others; whether a target matches a record does not depend on it.
C25_CanSendShapes ==
    /\ tstep # "in" =>
          \A i \in 1..Len(tgts) :
             tsend[i] <=> Shape(tgts[i]) \in {<<TRUE, TRUE, TRUE>>, <<TRUE, TRUE, FALSE>>,
                                               <<TRUE, FALSE, TRUE>>}
    /\ tstep = "out" =>
          \A i \in 1..Len(tgts) :
             (~tsend[i] /\ Matches(tgts[i], tmsg)) => tres \in 1..i

\* The record went to the plugin through a target that cannot send.
C25_Witness ==
    /\ tstep = "out"
    /\ tres # 0
    /\ ~tsend[tres]
    /\ thanded

\* ---- C26 ------------------------------------------------------------------

\* The target's account equals the record's, and the channel and the nick
\* equal the record's where the target sets them.
MatchesNamedAccount(t, m) ==
    /\ t.account = m.account
    /\ t.channel = "" \/ t.channel = m.channel
    /\ t.nick = "" \/ t.nick = m.nick

\* C26 as stated: Target returns the first target whose account is the
\* record's account and whose channel and nick, where set, are the
\* record's, and nil when there is none.
C26_FirstTargetOfAccount ==
    tstep = "out" =>
       IF \E i \in 1..Len(tgts) : MatchesNamedAccount(tgts[i], tmsg)
       THEN /\ tres # 0
            /\ MatchesNamedAccount(tgts[tres], tmsg)
            /\ \A j \in 1..(tres - 1) : ~MatchesNamedAccount(tgts[j], tmsg)
       ELSE tres = 0

\* C26: Target returns the first target, in configuration order, each of
\* whose set fields (account, channel, nick) equals the record's, nil when
\* there is none, and the loop hands the record over only when the result
\* is not nil.
C26_FirstMatchingTarget ==
    tstep = "out" =>
       /\ IF \E i \in 1..Len(tgts) : Matches(tgts[i], tmsg)
          THEN /\ tres # 0
               /\ Matches(tgts[tres], tmsg)
               /\ \A j \in 1..(tres - 1) : ~Matches(tgts[j], tmsg)
          ELSE tres = 0
       /\ thanded => tres # 0

\* The first target names another channel and the second, which sets no
\* account, is the one returned for a record of account "one".
C26_Witness ==
    /\ tstep = "out"
    /\ Len(tgts) = 2
    /\ tmsg.account = "one" /\ tmsg.channel = "" /\ tmsg.nick = "nick"
    /\ tgts[1] = [account |-> "one", channel |-> "#chan", nick |-> ""]
    /\ tgts[2].account = ""
    /\ tres = 2
    /\ thanded

\* ---- C27 ------------------------------------------------------------------

\* The functions handle called, in order.
Called == [i \in 1..Len(hcalls) |-> hcalls[i].fn]

CalledSet == {Called[i] : i \in 1..Len(hcalls)}

\* The interface a function of the plugin belongs to.
InterfaceOf(fn) ==
    CASE fn = "HandleMessage" -> "MessageHandler"
      [] fn = "HandleOutgoing" -> "OutgoingHandler"
      [] fn = "HandleCommand" -> "CommandHandler"
      [] OTHER -> "CommandHandler"

\* C27: a record with an empty AsNick reaches the outgoing observer only;
\* any other record reaches the command handler, if at all, and then the
\* message handler, never the outgoing observer; a handler is called only
\* if the plugin implements its interface, and the outgoing observer and the
\* message handler are called whenever it does.
C27_HandlersBySender ==
    hstep = "handled" =>
       /\ \A fn \in CalledSet : InterfaceOf(fn) \in hin.caps
       /\ hin.asNick = "" =>
             Called = IF "OutgoingHandler" \in hin.caps THEN <<"HandleOutgoing">> ELSE <<>>
       /\ hin.asNick # "" =>
             /\ "HandleOutgoing" \notin CalledSet
             /\ ("MessageHandler" \in hin.caps) <=> ("HandleMessage" \in CalledSet)
             /\ \A i \in 1..Len(Called) : Called[i] = "HandleMessage" => i = Len(Called)

\* The bot's own echo of a known command reached the outgoing observer of a
\* plugin that also handles commands and messages.
C27_Witness ==
    /\ hstep = "handled"
    /\ hin.asNick = ""
    /\ hin.caps = Capabilities
    /\ hin.cmdName \in hin.commands
    /\ Called = <<"HandleOutgoing">>

\* ---- C28 ------------------------------------------------------------------

\* The command is one the plugin can be asked to run.
CommandApplies ==
    /\ hin.asNick # ""
    /\ hin.cmdName # ""
    /\ hin.cmdName \in hin.commands
    /\ "CommandHandler" \in hin.caps

\* C28: when the command applies and its arguments do not parse, one reply
\* to the record is sent, HandleCommand is not called, the message handler
\* is still called, LastId is the record's id and the loop goes on to store
\* it; when the command does not apply there is neither a reply nor a call
\* of HandleCommand.
C28_ParseErrorReplies ==
    /\ hstep = "handled" =>
          /\ (CommandApplies /\ ~hin.parses) =>
                /\ Called = <<"Sendf">> \o (IF "MessageHandler" \in hin.caps
                                             THEN <<"HandleMessage">> ELSE <<>>)
                /\ hcalls[1].msg = RecordId
                /\ hlastid = RecordId
          /\ ~CommandApplies => CalledSet \cap {"Sendf", "HandleCommand"} = {}
          /\ "HandleCommand" \in CalledSet => hin.parses
    /\ hstep = "out" => (hstored # 0 => hstored = hlastid)

\* The arguments did not parse: the reply was sent, the message handler ran
\* and the loop stored the new lastid.
C28_Witness ==
    /\ hstep = "out"
    /\ CommandApplies /\ ~hin.parses
    /\ Called = <<"Sendf", "HandleMessage">>
    /\ hstored = RecordId

\* ---- C29 ------------------------------------------------------------------

\* The fetched, enabled documents whose key is not registered.
Unregistered == {p \in Seen : pluginKey(p) \notin registeredPlugins}

\* What the pass makes of name p when it looks at p's document and instance
\* alone.
OutcomeOf(p) ==
    IF p \in Seen /\ (~plugins[p].running \/ pluginChanged(plugins[p], pluginsCol[p]))
    THEN startPlugin(pluginsCol[p])
    ELSE IF plugins[p].running /\ p \notin Seen THEN NoPlugin
    ELSE plugins[p]

\* C29: a pass that meets a document whose key is not registered does not
\* run it and calls nothing on it, takes no rollback position from it, and
\* treats every other name as it would without that document.
C29_UnregisteredSkipped ==
    [][(PassStep /\ synced') =>
          /\ \A q \in Unregistered : ~plugins'[q].running /\ Calls(q) = <<>>
          /\ \A p \in PluginNames \ Unregistered : plugins'[p] = OutcomeOf(p)
          /\ IF \E p \in PluginNames \ Unregistered : plugins'[p] # plugins[p] /\ plugins'[p].running
             THEN lpc' = "rollback" =>
                    rollbackId' = MinOf({plugins'[p].lastid :
                                           p \in {r \in PluginNames \ Unregistered :
                                                    plugins'[r] # plugins[r] /\ plugins'[r].running}})
             ELSE lpc' = "select" /\ incomcol' = incomcol]_vars

\* The pass met the document of a plugin that is not registered, started
\* the other plugin and waits to submit that plugin's position.
C29_Witness ==
    /\ synced
    /\ Unregistered # {}
    /\ Running # {}
    /\ lpc = "rollback"
    /\ \E p \in Running : rollbackId = plugins[p].lastid

\* ---- C30 ------------------------------------------------------------------

\* C30: when no manager is up, every store session a start function copied
\* has been closed: a start that failed to create the collections left
\* neither a loop, nor a tail, nor an open session behind.
C30_FailedStartReleasesSession ==
    /\ lpc = "down" => (tomb = "none" /\ tpc = "none" /\ session = 0)
    /\ amtomb = "none" => asession = 0


\* ---- C31 ------------------------------------------------------------------

\* C31: a store error never terminates a manager: a failed insert into the
\* incoming log or a failed update of an account's confirmed position leaves
\* the account manager alive, so its tomb leaves "alive" by Stop alone.
C31_StoreErrorNeverKills ==
    [][(amtomb = "alive" /\ amtomb' # "alive") => AccStop]_vars


\* ---- C33 ------------------------------------------------------------------

\* C33: accountManager.Stop returns only after all tail tasks have
\* terminated: once the loop and die are over (tomb.Wait returns) no tail of
\* the manager is still running.
C33_StopWaitsForTails ==
    (astarts > 0 /\ amtomb = "none") => apc \in {"none", "done"}


\* ---- C32 ------------------------------------------------------------------

\* C32: the account manager's reconciliation never mutates the configuration
\* of a running client in place: the channel list a running client holds
\* stays the one it was started with.
C32_RunningClientKeepsConfig == [][cinfo' = cinfo]_vars


\* ---- C34 ------------------------------------------------------------------

\* C34: the plugin manager's tail never terminates while the manager is
\* alive, and once the dying signal is raised it terminates from every
\* state: delivering, reading, sleeping.
C34_TailEndsWithManager ==
    /\ [](tpc = "done" => tomb # "alive")
    /\ (tomb = "dying" /\ tpc # "none") ~> (tpc \in {"done", "none"})

\* The tail was blocked delivering a record when the tomb was killed, and
\* has returned.
C34_Witness == tomb = "dying" /\ lpc = "dead" /\ tpc = "done" /\ iterPos = 0 /\ lastId > 0


\* C37: every call of pluginManager.Stop that has begun returns in the end,
\* and so does the call of pluginManager.Refresh, whatever config.Plugins is
\* and wherever the loop is.
C37_StopAndRefreshReturn ==
    /\ \A k \in StopCalls : (scall[k].pc # "idle") ~> (scall[k].pc = "returned")
    /\ (rcall # "idle") ~> (rcall = "returned")

\* C38: a call of Stop made after a first Stop has returned nil has returned
\* nil as well, without waiting, and no plugin was stopped a second time.
C38_SecondStopSameResult ==
    (scall[2].seq /\ scall[1].result = "nil")
        => (scall[2].pc = "returned" /\ scall[2].result = "nil" /\ nstops <= 1)


\* C39: a call of accountManager.Refresh that has begun returns in the end,
\* also when the account manager is stopping or has stopped.
C39_AccRefreshReturns == (arpc # "idle") ~> (arpc = "idle")


\* C35: ldapConn can be called at every moment the plugin may call it and
\* hands out a connection only for a name m.ldapConns holds; between the
\* passes of refreshLdaps the table holds exactly the connections of the
\* states of m.ldaps, and a call made then for a name with no state is not
\* found; a call made after die has cleared the table is not found.
C35_LookupFollowsTable ==
    /\ \A n \in LdapNames : ldplugin # "stopped" => ENABLED ldapConn(n, TRUE)
    /\ look.conn # 0 => look.intable
    /\ (ldpass.pc = "idle" /\ lddie = "no")
          => \A n \in LdapNames : ldtable[n] = ldstates[n].conn
    /\ look.unknown => look.conn = 0
    /\ look.cleared => look.conn = 0
    /\ ~ldpanic

C35_Witness ==
    /\ look.cleared
    /\ look.conn = 0
    /\ ldstates[look.name].conn # 0
    /\ ldstates[look.name].conn \notin ldclosed

\* C36: ldapConn never hands out a connection of a managed connection that
\* Close has been called on.
C36_NoConnFromClosed == look.conn # 0 => ~look.stale
====
